---- MODULE Spec2Model ----
(***************************************************************************)
(* Model of the theme server: the download-and-provision workflow          *)
(* (ShopifyService.downloadTheme, fetchAndDownloadTheme), the retry loop   *)
(* of ShopifyService.pullTheme, the session registry of CodexService, the  *)
(* chat handlers and the webhook POSTs they make.                          *)
(*                                                                         *)
(* The process is single-threaded: every action below is the code that     *)
(* runs between two suspension points (an await on a child process, a      *)
(* timer, the SDK or a webhook POST).  Strings that the code inspects      *)
(* character by character are sequences of one-character strings.          *)
(***************************************************************************)
EXTENDS Integers, Sequences, FiniteSets, TLC

\* ------------------------------------------------------------------ bounds
MaxRetriesBound == 2
MaxRequests == 2
MaxEvents == 2
MaxDirLen == 3
MaxSetups == 2

\* --------------------------------------------------------------- constants
\* the slot of the background task in flight; a finished task's slot is
\* taken by the next request
Tasks == {1}

\* path.resolve(config.THEME_DOWNLOAD_PATH): an absolute path
DownloadBase == <<"/", "t">>

\* theme ids a request may name, and ids the duplicate command may report
RequestThemeIds == {<<"1">>}
NewThemeIds == {<<"7">>, <<"8">>}

\* files the pull command writes, and the wrapper script of runThemeDev
PulledFile == "layout"
WrapperScript == "run-theme-dev.sh"

Lower == {"a","b","c","d","e","f","g","h","i","j","k","l","m",
          "n","o","p","q","r","s","t","u","v","w","x","y","z"}
Upper == {"A","B","C","D","E","F","G","H","I","J","K","L","M",
          "N","O","P","Q","R","S","T","U","V","W","X","Y","Z"}
Digit == {"0","1","2","3","4","5","6","7","8","9"}

\* the character class [a-zA-Z0-9] of the envId regular expression
Alnum == Lower \cup Upper \cup Digit

\* ------------------------------------------------------------ pure helpers

\* (mutant of EnvIdOf: the path separator is left in place)
EnvIdOf_KeepsSlash(wd) ==
  [i \in 1..Len(wd) |-> IF wd[i] \in Alnum \cup {"/"} THEN wd[i] ELSE "_"]

\* workingDirectory.replace(/[^a-zA-Z0-9]/g, '_')
EnvIdOf(wd) ==
  [i \in 1..Len(wd) |-> IF wd[i] \in Alnum THEN wd[i] ELSE "_"]

\* (mutant of ThemePath: every theme is pulled into the download base)
ThemePath_Base(themeId) == DownloadBase

\* path.join(downloadBase, themeId) for an id without separators
ThemePath(themeId) == DownloadBase \o <<"/">> \o themeId

\* an Error and its message: kind names the message text, n and s the values
\* interpolated into it
Err(kind, n, s) == [kind |-> kind, n |-> n, s |-> s]
NoError == Err("none", 0, <<>>)

\* what a CLI command wrote on one channel: nothing, white space only, text
\* that is not JSON, or a JSON value (null, an object without theme, a theme
\* without id, a theme whose id is a number or a string)
Out(text, shape, idNum, idStr) ==
  [text |-> text, shape |-> shape, idNum |-> idNum, idStr |-> idStr]
EmptyOut == Out("empty", "none", 0, <<>>)
CliOutputs ==
  {EmptyOut, Out("blank", "none", 0, <<>>), Out("garbage", "none", 0, <<>>)}
  \cup {Out("json", sh, 0, <<>>) : sh \in {"null", "no_theme", "no_id"}}
  \cup {Out("json", "number", n, <<>>) : n \in {0, 7, 8}}
  \cup {Out("json", "string", 0, s) : s \in {<<>>} \cup NewThemeIds}

\* String.prototype.trim on a channel: white space only becomes ''
Trim(out) == IF out.text = "blank" THEN EmptyOut ELSE out

\* String(n) for a natural number n
RECURSIVE DecimalString(_)
DecimalString(n) ==
  LET d == <<"0", "1", "2", "3", "4", "5", "6", "7", "8", "9">>[(n % 10) + 1] IN
  IF n < 10 THEN <<d>> ELSE DecimalString(n \div 10) \o <<d>>

\* (mutant of DuplicateResult: only stdout is read)
DuplicateResult_StdoutOnly(stdout, stderr) ==
  LET output == Trim(stdout) IN
  IF output.text = "empty" THEN [ok |-> FALSE, id |-> <<>>, err |-> Err("NoOutput", 0, <<>>)]
  ELSE IF output.text = "garbage" THEN [ok |-> FALSE, id |-> <<>>, err |-> Err("JsonSyntax", 0, <<>>)]
  ELSE IF output.shape = "null" THEN [ok |-> FALSE, id |-> <<>>, err |-> Err("TypeError", 0, <<>>)]
  ELSE IF output.shape = "number" /\ output.idNum # 0
       THEN [ok |-> TRUE, id |-> DecimalString(output.idNum), err |-> NoError]
  ELSE IF output.shape = "string" /\ output.idStr # <<>>
       THEN [ok |-> TRUE, id |-> output.idStr, err |-> NoError]
  ELSE [ok |-> FALSE, id |-> <<>>, err |-> Err("DuplicationFailed", 0, <<>>)]

\* duplicateTheme after the command returned: stdout.trim() || stderr.trim(),
\* the 'No output' throw, JSON.parse (a SyntaxError on text that is not JSON),
\* result.theme?.id (a TypeError on null, falsy when absent, 0 or ''),
\* String(result.theme.id)
DuplicateResult(stdout, stderr) ==
  LET output == IF Trim(stdout).text # "empty" THEN Trim(stdout) ELSE Trim(stderr) IN
  IF output.text = "empty" THEN [ok |-> FALSE, id |-> <<>>, err |-> Err("NoOutput", 0, <<>>)]
  ELSE IF output.text = "garbage" THEN [ok |-> FALSE, id |-> <<>>, err |-> Err("JsonSyntax", 0, <<>>)]
  ELSE IF output.shape = "null" THEN [ok |-> FALSE, id |-> <<>>, err |-> Err("TypeError", 0, <<>>)]
  ELSE IF output.shape = "number" /\ output.idNum # 0
       THEN [ok |-> TRUE, id |-> DecimalString(output.idNum), err |-> NoError]
  ELSE IF output.shape = "string" /\ output.idStr # <<>>
       THEN [ok |-> TRUE, id |-> output.idStr, err |-> NoError]
  ELSE [ok |-> FALSE, id |-> <<>>, err |-> Err("DuplicationFailed", 0, <<>>)]

\* one iteration of the loop of pullTheme after execAsync settled: execAsync
\* rejects on a non-zero exit or a timeout, and that rejection leaves pullTheme;
\* otherwise readdir decides
PullDecision(exitOk, dirExists, files, attempt, maxR) ==
  IF ~exitOk THEN "throw_exec"
  ELSE IF ~dirExists THEN "throw_fs"
  ELSE IF files # {} THEN "return"
  ELSE IF attempt + 1 <= maxR THEN "retry"
  ELSE "throw_exhausted"

\* (mutant of DownloadSuccessPayload: env_id is the path, not the derived id)
DownloadSuccessPayload_RawPath(newThemeId, envId) ==
  [success |-> TRUE, theme_id |-> newThemeId, env_id |-> ThemePath(newThemeId)]

\* webhook payloads of fetchAndDownloadTheme
DownloadSuccessPayload(newThemeId, envId) ==
  [success |-> TRUE, theme_id |-> newThemeId, env_id |-> envId]
DownloadErrorPayload(err) ==
  [success |-> FALSE, error |-> err]

\* the response of router.post('/selected-theme')
DownloadAccepted(themeId) ==
  [status |-> 200, success |-> TRUE, message |-> <<"download accepted", themeId>>]
NoResponse == [status |-> 0, success |-> FALSE, message |-> <<>>]

\* --------------------------------------------------------------- variables
VARIABLES
  maxRetries,          \* config.THEME_PULL_MAX_RETRIES
  fs,                  \* the theme directories under the download base
  environmentThreads,  \* CodexService.environmentThreads
  nextThread,          \* handles handed out by codex.startThread so far
  served,              \* requests accepted so far
  task,                \* the background tasks and the requests behind them
  probe,               \* inputs and result of a direct call of a pure function
  codex                \* CodexService.codexPromise / codexInstance and the callers of getCodex

vars == <<maxRetries, fs, environmentThreads, nextThread, served, task, probe, codex>>

NoCalls == [dup |-> 0, wait |-> 0, pull |-> 0, sleep |-> 0, setup |-> 0,
            dev |-> 0, spawn |-> 0, run |-> 0]

IdleTask ==
  [kind |-> "none", pc |-> "idle", arg |-> <<>>, prompt |-> "none", model |-> "",
   newThemeId |-> <<>>,
   attempt |-> 0, envId |-> <<>>, thread |-> 0, eventCount |-> 0, seen |-> 0,
   event |-> [type |-> "none", item |-> "none"], preview |-> "none",
   opOk |-> FALSE, error |-> NoError, promise |-> "none",
   response |-> NoResponse,
   posts |-> <<>>, calls |-> NoCalls, pullLog |-> <<>>]

\* new Map()
EmptyMap == [k \in {} |-> 0]

NoDir == [exists |-> FALSE, files |-> {}]
\* what getEnvironment returns for an id the map does not hold
Undefined == [thread |-> [id |-> 0]]

\* no direct call made yet: op names the method called last, envId its
\* argument, returned / entry / listed what it returned
NoProbe == [a |-> <<>>, b |-> <<>>, ea |-> <<>>, eb |-> <<>>,
            op |-> "none", envId |-> <<>>, returned |-> FALSE,
            entry |-> Undefined, listed |-> {}, request |-> <<>>,
            threadOptions |-> <<>>]

\* the callers of getCodex
CodexCallers == 1..(MaxSetups + 2)

\* a CodexService after its constructor: codexPromise and codexInstance are
\* undefined (0), initializeCodex has not been called (promises lists the
\* promises it returned), no client was constructed, no caller is in getCodex
NoCodex ==
  [codexPromise |-> 0, codexInstance |-> 0, promises |-> <<>>, constructed |-> 0,
   caller |-> [c \in CodexCallers |-> [pc |-> "idle", awaits |-> 0, client |-> 0]]]

Init ==
  /\ maxRetries \in 0..MaxRetriesBound
  /\ fs = [i \in NewThemeIds |-> NoDir]
  /\ environmentThreads = EmptyMap
  /\ nextThread = 1
  /\ served = 0
  /\ task = [t \in Tasks |-> IdleTask]
  /\ probe = NoProbe
  /\ codex = NoCodex

\* a request can be taken: the slot holds no unfinished task
CanAccept(t) ==
  /\ task[t].pc \in {"idle", "done", "refused"}
  /\ served < MaxRequests

\* ------------------------------------------------------- webhook bookkeeping
Bump(c, f) == [c EXCEPT ![f] = @ + 1]

\* axios.post(url, payload, ...) called: the POST is in flight
Posted(posts, seg, auth, payload) ==
  Append(posts, [segment |-> seg, auth |-> auth, payload |-> payload,
                 status |-> "inflight"])

\* the POST in flight settled
Settled(posts, ok) ==
  [posts EXCEPT ![Len(posts)].status = IF ok THEN "ok" ELSE "failed"]

\* (mutant of DownloadCatch: the error is reported and the workflow goes on)
DownloadCatch_Continues(tk, err) ==
  [tk EXCEPT !.error = err,
             !.posts = Posted(tk.posts, "theme", TRUE, DownloadErrorPayload(err))]

\* the last two POSTs carry the same payload
HadRetry(posts) ==
  Len(posts) >= 2 /\ posts[Len(posts)].payload = posts[Len(posts) - 1].payload

\* the catch block of fetchAndDownloadTheme: build the error payload and POST it
DownloadCatch(tk, err) ==
  [tk EXCEPT !.pc = "post_err", !.error = err,
             !.posts = Posted(tk.posts, "theme", TRUE, DownloadErrorPayload(err))]

\* ------------------------------------------------------- session registry

\* (mutant of MapSet: a key that exists keeps its value)
MapSet_KeepsFirst(m, k, v) ==
  [x \in (DOMAIN m) \cup {k} |-> IF x \in DOMAIN m THEN m[x] ELSE v]

\* this.environmentThreads.set(envId, {...})
MapSet(m, k, v) == [x \in (DOMAIN m) \cup {k} |-> IF x = k THEN v ELSE m[x]]

\* (mutant of MapDelete: the whole map is cleared)
MapDelete_Clear(m, k) == IF k \in DOMAIN m THEN EmptyMap ELSE m

\* this.environmentThreads.delete(envId)
MapDelete(m, k) == [x \in (DOMAIN m) \ {k} |-> m[x]]

\* model || 'gpt-5.1-codex-max'
ModelOrDefault(model) == IF model = "" THEN "gpt-5.1-codex-max" ELSE model

\* an optional field of CodexThreadOptions that the caller left out
Absent == "absent"

\* the options a caller may hand to startThread: optional booleans are
\* "absent", "true" or "false"; optional strings are "absent", "" or a value
ThreadRequest(wd, skip, model, approval, sandbox, yolo) ==
  [workingDirectory |-> wd, skipGitRepoCheck |-> skip, model |-> model,
   approvalMode |-> approval, sandboxMode |-> sandbox, yoloMode |-> yolo]

Truthy(s) == s \notin {Absent, ""}

\* (mutant of StartThreadOptions: a mode the caller supplied wins over yoloMode)
StartThreadOptions_CallerWins(options) ==
  LET yoloMode == options.yoloMode = "true"
      finalApprovalMode == IF Truthy(options.approvalMode) THEN options.approvalMode
                           ELSE IF yoloMode THEN "never" ELSE Absent
      finalSandboxMode == IF Truthy(options.sandboxMode) THEN options.sandboxMode
                          ELSE IF yoloMode THEN "danger-full-access" ELSE Absent
  IN [workingDirectory |-> options.workingDirectory,
      skipGitRepoCheck |-> options.skipGitRepoCheck = "true",
      model |-> IF options.model = Absent THEN "gpt-5-codex" ELSE options.model,
      approvalMode |-> finalApprovalMode,
      sandboxMode |-> finalSandboxMode]

\* startThread: defaults of the destructuring, the yoloMode override, and the
\* threadOptions handed to codex.startThread (a mode that is not truthy is
\* left out); the default working directory is written <<>>
StartThreadOptions(options) ==
  LET yoloMode == options.yoloMode = "true"
      finalApprovalMode == IF yoloMode THEN "never" ELSE options.approvalMode
      finalSandboxMode == IF yoloMode THEN "danger-full-access" ELSE options.sandboxMode
  IN [workingDirectory |-> options.workingDirectory,
      skipGitRepoCheck |-> options.skipGitRepoCheck = "true",
      model |-> IF options.model = Absent THEN "gpt-5-codex" ELSE options.model,
      approvalMode |-> IF Truthy(finalApprovalMode) THEN finalApprovalMode ELSE Absent,
      sandboxMode |-> IF Truthy(finalSandboxMode) THEN finalSandboxMode ELSE Absent]

\* the options setupEnvironment hands to startThread
SetupThreadRequest(workingDirectory, model) ==
  ThreadRequest(workingDirectory, "false", ModelOrDefault(model), Absent, Absent, "true")

\* the thread codex.startThread returns: the n-th handle, with its options
NewThread(n, options) == [id |-> n, options |-> StartThreadOptions(options)]

\* (mutant of EnvironmentEntry: the model is stored as it was passed)
EnvironmentEntry_RawModel(thread, workingDirectory, model, now) ==
  [thread |-> thread, workingDirectory |-> workingDirectory,
   model |-> model, createdAt |-> now]

\* the entry setupEnvironment stores once startThread has returned a thread
EnvironmentEntry(thread, workingDirectory, model, now) ==
  [thread |-> thread, workingDirectory |-> workingDirectory,
   model |-> ModelOrDefault(model), createdAt |-> now]

\* config.CODEX_MODEL: the Config of environment.ts has no such field
ConfigCodexModel == ""

\* env ids a client may name: those of the themes and one that never exists
ChatEnvIds == {EnvIdOf(ThemePath(i)) : i \in NewThemeIds} \cup {<<"x">>}

\* getEnvironment(envId): this.environmentThreads.get(envId)
HasEnvironment(m, envId) == envId \in DOMAIN m

\* removeEnvironment(envId): the value returned and the map afterwards
RemoveEnvironment(m, envId) ==
  [deleted |-> envId \in DOMAIN m, map |-> MapDelete(m, envId)]

\* router.delete('/codex/environment/:envId') for an environment that exists
\* (for one that does not, nothing changes and the answer is 404)
DeleteEnvironment(envId) ==
  /\ RemoveEnvironment(environmentThreads, envId).deleted
  /\ environmentThreads' = RemoveEnvironment(environmentThreads, envId).map
  /\ UNCHANGED <<maxRetries, fs, nextThread, served, task, probe, codex>>

\* ------------------------------------------------------ download workflow

\* router.post('/selected-theme'): fetchAndDownloadTheme runs up to its first
\* await (execAsync of the duplicate command), then the response is sent
PostSelectedTheme(t, themeId) ==
  /\ CanAccept(t)
  /\ served' = served + 1
  /\ task' = [task EXCEPT ![t] =
       [IdleTask EXCEPT !.kind = "download", !.pc = "duplicate", !.arg = themeId,
                        !.promise = "pending", !.calls = Bump(@, "dup"),
                        !.response = DownloadAccepted(themeId)]]
  /\ UNCHANGED <<maxRetries, fs, environmentThreads, nextThread, probe, codex>>

\* (mutant of DuplicateReturn: a duplicate command that failed is run once more)
DuplicateReturn_Retries(t) ==
  /\ task[t].kind = "download" /\ task[t].pc = "duplicate"
  /\ \E exitOk \in BOOLEAN, stdout \in CliOutputs, stderr \in CliOutputs :
       LET r == DuplicateResult(stdout, stderr) IN
       task' = [task EXCEPT ![t] =
         IF (~exitOk \/ ~r.ok) /\ task[t].calls.dup < 2
         THEN [@ EXCEPT !.calls = Bump(@, "dup")]
         ELSE IF ~exitOk THEN DownloadCatch(@, Err("ExecFailed", 0, <<>>))
         ELSE IF ~r.ok THEN DownloadCatch(@, r.err)
         ELSE [@ EXCEPT !.pc = "wait", !.newThemeId = r.id,
                        !.calls = Bump(@, "wait")]]
  /\ UNCHANGED <<maxRetries, fs, environmentThreads, nextThread, served, probe, codex>>

\* duplicateTheme resumes after execAsync; on success downloadTheme starts the
\* propagation wait
DuplicateReturn(t) ==
  /\ task[t].kind = "download" /\ task[t].pc = "duplicate"
  /\ \E exitOk \in BOOLEAN, stdout \in CliOutputs, stderr \in CliOutputs :
       LET r == DuplicateResult(stdout, stderr) IN
       task' = [task EXCEPT ![t] =
         IF ~exitOk THEN DownloadCatch(@, Err("ExecFailed", 0, <<>>))
         ELSE IF ~r.ok THEN DownloadCatch(@, r.err)
         ELSE [@ EXCEPT !.pc = "wait", !.newThemeId = r.id,
                        !.calls = Bump(@, "wait")]]
  /\ UNCHANGED <<maxRetries, fs, environmentThreads, nextThread, served, probe, codex>>

\* (mutant of WaitDone: the wait polls for a theme that never becomes ready)
WaitDone_NeverReady(t) ==
  /\ task[t].kind = "download" /\ task[t].pc = "wait"
  /\ UNCHANGED <<maxRetries, fs, environmentThreads, nextThread, served, task, probe, codex>>

\* (mutant of WaitDone: the pull is skipped, the session is provisioned at once)
WaitDone_SkipsPull(t) ==
  /\ task[t].kind = "download" /\ task[t].pc = "wait"
  /\ task' = [task EXCEPT ![t] = [@ EXCEPT !.pc = "setup", !.calls = Bump(@, "setup")]]
  /\ UNCHANGED <<maxRetries, fs, environmentThreads, nextThread, served, probe, codex>>

\* the THEME_DUPLICATE_WAIT_SECONDS timer fires; pullTheme starts with fs.mkdir
WaitDone(t) ==
  /\ task[t].kind = "download" /\ task[t].pc = "wait"
  /\ task' = [task EXCEPT ![t].pc = "mkdir"]
  /\ UNCHANGED <<maxRetries, fs, environmentThreads, nextThread, served, probe, codex>>

\* fs.mkdir(themePath, {recursive: true}) returned; attempt 0 starts without a
\* delay with execAsync of the pull command
MkdirReturn(t) ==
  /\ task[t].kind = "download" /\ task[t].pc = "mkdir"
  /\ fs' = [fs EXCEPT ![task[t].newThemeId].exists = TRUE]
  /\ task' = [task EXCEPT ![t] =
       [@ EXCEPT !.pc = "pull", !.attempt = 0, !.calls = Bump(@, "pull")]]
  /\ UNCHANGED <<maxRetries, environmentThreads, nextThread, served, probe, codex>>

\* the pull command settled (it may or may not have written the theme files,
\* whatever its exit status), then fs.readdir(themePath) and the rest of the
\* loop body; on success downloadTheme goes on to setupEnvironment, which
\* awaits startThread
PullReturn(t) ==
  /\ task[t].kind = "download" /\ task[t].pc = "pull"
  /\ \E exitOk \in BOOLEAN, wrote \in BOOLEAN :
       LET id  == task[t].newThemeId
           dir == IF wrote THEN [exists |-> TRUE, files |-> fs[id].files \cup {PulledFile}]
                  ELSE fs[id]
           d   == PullDecision(exitOk, dir.exists, dir.files, task[t].attempt, maxRetries)
           log == Append(task[t].pullLog,
                         [attempt |-> task[t].attempt, exitOk |-> exitOk,
                          dirExists |-> dir.exists, nonEmpty |-> dir.files # {}])
       IN
       /\ fs' = [fs EXCEPT ![id] = dir]
       /\ task' = [task EXCEPT ![t] =
            LET tk == [@ EXCEPT !.pullLog = log] IN
            CASE d = "throw_exec" -> DownloadCatch(tk, Err("ExecFailed", 0, <<>>))
              [] d = "throw_fs" -> DownloadCatch(tk, Err("FsError", 0, <<>>))
              [] d = "return" ->
                   [tk EXCEPT !.pc = "setup", !.calls = Bump(@, "setup")]
              [] d = "retry" ->
                   [tk EXCEPT !.pc = "sleep", !.attempt = @ + 1,
                              !.calls = Bump(@, "sleep")]
              [] OTHER ->
                   DownloadCatch(tk, Err("PullExhausted", maxRetries + 1, <<>>))]
  /\ UNCHANGED <<maxRetries, environmentThreads, nextThread, served, probe, codex>>

\* the THEME_PULL_RETRY_DELAY_SECONDS timer fires; the next attempt starts
SleepDone(t) ==
  /\ task[t].kind = "download" /\ task[t].pc = "sleep"
  /\ task' = [task EXCEPT ![t] = [@ EXCEPT !.pc = "pull", !.calls = Bump(@, "pull")]]
  /\ UNCHANGED <<maxRetries, fs, environmentThreads, nextThread, served, probe, codex>>

\* setupEnvironment resumes after startThread: derive envId, store the entry,
\* return; downloadTheme then calls runThemeDev, which awaits fs.access
SetupReturn(t) ==
  /\ task[t].kind = "download" /\ task[t].pc = "setup"
  /\ \E ok \in BOOLEAN :
       IF ok
       THEN LET wd == ThemePath(task[t].newThemeId)
                envId == EnvIdOf(wd) IN
            /\ environmentThreads' =
                 MapSet(environmentThreads, envId,
                        EnvironmentEntry(
                          NewThread(nextThread, SetupThreadRequest(wd, ConfigCodexModel)),
                          wd, ConfigCodexModel, nextThread))
            /\ nextThread' = nextThread + 1
            /\ task' = [task EXCEPT ![t] =
                 [@ EXCEPT !.pc = "dev_check", !.envId = envId,
                           !.thread = nextThread, !.calls = Bump(@, "dev")]]
       ELSE /\ task' = [task EXCEPT ![t] =
                 DownloadCatch(@, Err("StartThreadFailed", 0, <<>>))]
            /\ UNCHANGED <<environmentThreads, nextThread>>
  /\ UNCHANGED <<maxRetries, fs, served, probe, codex>>

\* (mutant of DevCheckReturn: a failed launch removes the environment again)
DevCheckReturn_RollsBack(t) ==
  /\ task[t].kind = "download" /\ task[t].pc = "dev_check"
  /\ task' = [task EXCEPT ![t] =
       IF fs[task[t].newThemeId].exists
       THEN [@ EXCEPT !.pc = "dev_write"]
       ELSE DownloadCatch(@, Err("DirNotFound", 0, ThemePath(task[t].newThemeId)))]
  /\ environmentThreads' =
       IF fs[task[t].newThemeId].exists THEN environmentThreads
       ELSE MapDelete(environmentThreads, task[t].envId)
  /\ UNCHANGED <<maxRetries, fs, nextThread, served, probe, codex>>

\* (mutant of DevCheckReturn: the directory is not verified)
DevCheckReturn_NoCheck(t) ==
  /\ task[t].kind = "download" /\ task[t].pc = "dev_check"
  /\ task' = [task EXCEPT ![t] = [@ EXCEPT !.pc = "dev_write"]]
  /\ UNCHANGED <<maxRetries, fs, environmentThreads, nextThread, served, probe, codex>>

\* runThemeDev after fs.access / fs.readdir: a missing directory is fatal,
\* otherwise the wrapper script is written (fs.writeFile awaited)
DevCheckReturn(t) ==
  /\ task[t].kind = "download" /\ task[t].pc = "dev_check"
  /\ task' = [task EXCEPT ![t] =
       IF fs[task[t].newThemeId].exists
       THEN [@ EXCEPT !.pc = "dev_write"]
       ELSE DownloadCatch(@, Err("DirNotFound", 0, ThemePath(task[t].newThemeId)))]
  /\ UNCHANGED <<maxRetries, fs, environmentThreads, nextThread, served, probe, codex>>

\* fs.writeFile(wrapperScriptPath) settled; then execAsync(chmod) is awaited
DevWriteReturn(t) ==
  /\ task[t].kind = "download" /\ task[t].pc = "dev_write"
  /\ LET id == task[t].newThemeId IN
     IF fs[id].exists
     THEN /\ fs' = [fs EXCEPT ![id].files = @ \cup {WrapperScript}]
          /\ task' = [task EXCEPT ![t].pc = "dev_chmod"]
     ELSE /\ task' = [task EXCEPT ![t] = DownloadCatch(@, Err("FsError", 0, <<>>))]
          /\ UNCHANGED fs
  /\ UNCHANGED <<maxRetries, environmentThreads, nextThread, served, probe, codex>>

\* chmod settled; the preview process is spawned and left alone, runThemeDev
\* and downloadTheme return, fetchAndDownloadTheme POSTs the success payload
DevChmodReturn(t) ==
  /\ task[t].kind = "download" /\ task[t].pc = "dev_chmod"
  /\ \E exitOk \in BOOLEAN :
       task' = [task EXCEPT ![t] =
         IF exitOk
         THEN [@ EXCEPT !.pc = "post_ok", !.calls = Bump(@, "spawn"), !.opOk = TRUE,
                        !.preview = "running",
                        !.posts = Posted(@, "theme", TRUE,
                                    DownloadSuccessPayload(task[t].newThemeId, task[t].envId))]
         ELSE DownloadCatch(@, Err("ExecFailed", 0, <<>>))]
  /\ UNCHANGED <<maxRetries, fs, environmentThreads, nextThread, served, probe, codex>>

\* (mutant of PreviewSettles: the exit handler starts the preview again)
PreviewSettles_Restarts(t) ==
  /\ task[t].kind = "download" /\ task[t].preview = "running"
  /\ task[t].calls.spawn < 2
  /\ task' = [task EXCEPT ![t] = [@ EXCEPT !.calls = Bump(@, "spawn")]]
  /\ UNCHANGED <<maxRetries, fs, environmentThreads, nextThread, served, probe, codex>>

\* the preview process emits 'exit' or 'error': the handlers registered by
\* runThemeDev log it
PreviewSettles(t) ==
  /\ task[t].kind = "download" /\ task[t].preview = "running"
  /\ \E outcome \in {"exited", "errored"} :
       task' = [task EXCEPT ![t] = [@ EXCEPT !.preview = outcome]]
  /\ UNCHANGED <<maxRetries, fs, environmentThreads, nextThread, served, probe, codex>>

\* the POST of the success payload settled: a rejection is caught by the catch
\* block of fetchAndDownloadTheme, like an error of downloadTheme
DownloadPostOkReturn(t) ==
  /\ task[t].kind = "download" /\ task[t].pc = "post_ok"
  /\ \E ok \in BOOLEAN :
       task' = [task EXCEPT ![t] =
         LET tk == [@ EXCEPT !.posts = Settled(@, ok)] IN
         IF ok THEN [tk EXCEPT !.pc = "done", !.promise = "resolved"]
         ELSE DownloadCatch(tk, Err("WebhookFailed", 0, <<>>))]
  /\ UNCHANGED <<maxRetries, fs, environmentThreads, nextThread, served, probe, codex>>

\* the POST of the error payload settled: a rejection is only logged
DownloadPostErrReturn(t) ==
  /\ task[t].kind = "download" /\ task[t].pc = "post_err"
  /\ \E ok \in BOOLEAN :
       task' = [task EXCEPT ![t] =
         [@ EXCEPT !.posts = Settled(@, ok), !.pc = "done", !.promise = "resolved"]]
  /\ UNCHANGED <<maxRetries, fs, environmentThreads, nextThread, served, probe, codex>>

\* ------------------------------------------------------- chat (handleChat)

\* request bodies of /chat and /chat-streaming: env_id absent (<<>>) or
\* a string, prompt absent, a string, or a value that is no string
ChatEnvIdInputs == ChatEnvIds \cup {<<>>}
PromptInputs == {"missing", "text", "nonstring"}

ChatAccepted(kind, envId) ==
  [status |-> 200, success |-> TRUE, message |-> <<kind, envId>>]
BadRequest ==
  [status |-> 400, success |-> FALSE, message |-> <<"Missing required fields: env_id and prompt">>]
\* request.prompt.substring is not a function: the handler throws before it
\* starts anything, and Express answers 500
ServerError == [status |-> 500, success |-> FALSE, message |-> <<"TypeError">>]

ChatSuccessPayload(envId) ==
  [success |-> TRUE, env_id |-> envId, response |-> "finalResponse"]
\* (mutant of ChatErrorPayload: the error message alone is reported)
ChatErrorPayload_MessageOnly(envId, err) ==
  [success |-> FALSE, env_id |-> <<>>, error |-> Err(err.kind, 0, <<>>)]

ChatErrorPayload(envId, err) ==
  [success |-> FALSE, env_id |-> envId, error |-> err]

\* the catch block of handleChat
ChatCatch(tk, err) ==
  [tk EXCEPT !.pc = "post_err", !.error = err,
             !.posts = Posted(tk.posts, "chat", TRUE, ChatErrorPayload(tk.arg, err))]

\* a request the route refuses before any background task exists
Refused(kind, envId, resp) ==
  [IdleTask EXCEPT !.kind = kind, !.pc = "refused", !.arg = envId, !.response = resp]

\* (mutant of PostChat: a missing environment is answered with 404 at once)
PostChat_ReportsMissing(t, envId, prompt) ==
  /\ CanAccept(t)
  /\ served' = served + 1
  /\ task' = [task EXCEPT ![t] =
       IF envId = <<>> \/ prompt = "missing" THEN [Refused("chat", envId, BadRequest) EXCEPT !.prompt = prompt]
       ELSE IF prompt = "nonstring" THEN [Refused("chat", envId, ServerError) EXCEPT !.prompt = prompt]
       ELSE LET tk == [IdleTask EXCEPT !.kind = "chat", !.arg = envId, !.prompt = prompt,
                                       !.promise = "pending",
                                       !.response = ChatAccepted("chat", envId)] IN
            IF HasEnvironment(environmentThreads, envId)
            THEN [tk EXCEPT !.pc = "run", !.thread = environmentThreads[envId].thread.id,
                            !.calls = Bump(@, "run")]
            ELSE [ChatCatch(tk, Err("EnvNotFound", 0, envId)) EXCEPT
                    !.response = [status |-> 404, success |-> FALSE,
                                  message |-> <<"Environment not found">>]]]
  /\ UNCHANGED <<maxRetries, fs, environmentThreads, nextThread, probe, codex>>

\* router.post('/chat'): validation, then handleChat up to its first await
\* (thread.run, or the POST of the error payload when the environment is
\* missing), then the response
PostChat(t, envId, prompt) ==
  /\ CanAccept(t)
  /\ served' = served + 1
  /\ task' = [task EXCEPT ![t] =
       IF envId = <<>> \/ prompt = "missing" THEN [Refused("chat", envId, BadRequest) EXCEPT !.prompt = prompt]
       ELSE IF prompt = "nonstring" THEN [Refused("chat", envId, ServerError) EXCEPT !.prompt = prompt]
       ELSE LET tk == [IdleTask EXCEPT !.kind = "chat", !.arg = envId, !.prompt = prompt,
                                       !.promise = "pending",
                                       !.response = ChatAccepted("chat", envId)] IN
            IF HasEnvironment(environmentThreads, envId)
            THEN [tk EXCEPT !.pc = "run", !.thread = environmentThreads[envId].thread.id,
                            !.calls = Bump(@, "run")]
            ELSE ChatCatch(tk, Err("EnvNotFound", 0, envId))]
  /\ UNCHANGED <<maxRetries, fs, environmentThreads, nextThread, probe, codex>>

\* (mutant of ChatRunReturn: a failed run drops the environment)
ChatRunReturn_EvictsOnFailure(t) ==
  /\ task[t].kind = "chat" /\ task[t].pc = "run"
  /\ \E ok \in BOOLEAN :
       /\ task' = [task EXCEPT ![t] =
            IF ok
            THEN [@ EXCEPT !.pc = "post_ok", !.opOk = TRUE,
                           !.posts = Posted(@, "chat", TRUE, ChatSuccessPayload(task[t].arg))]
            ELSE ChatCatch(@, Err("RunFailed", 0, <<>>))]
       /\ environmentThreads' =
            IF ok THEN environmentThreads ELSE MapDelete(environmentThreads, task[t].arg)
  /\ UNCHANGED <<maxRetries, fs, nextThread, served, probe, codex>>

\* (mutant of ChatRunReturn: the environment is looked up again when the run
\* has settled)
ChatRunReturn_LooksUpAgain(t) ==
  /\ task[t].kind = "chat" /\ task[t].pc = "run"
  /\ \E ok \in BOOLEAN :
       task' = [task EXCEPT ![t] =
         IF ~HasEnvironment(environmentThreads, task[t].arg)
         THEN ChatCatch(@, Err("EnvNotFound", 0, task[t].arg))
         ELSE IF ok
         THEN [@ EXCEPT !.pc = "post_ok", !.opOk = TRUE,
                        !.thread = environmentThreads[task[t].arg].thread.id,
                        !.posts = Posted(@, "chat", TRUE, ChatSuccessPayload(task[t].arg))]
         ELSE ChatCatch(@, Err("RunFailed", 0, <<>>))]
  /\ UNCHANGED <<maxRetries, fs, environmentThreads, nextThread, served, probe, codex>>

\* thread.run settled: POST the success payload, or enter the catch block
ChatRunReturn(t) ==
  /\ task[t].kind = "chat" /\ task[t].pc = "run"
  /\ \E ok \in BOOLEAN :
       task' = [task EXCEPT ![t] =
         IF ok
         THEN [@ EXCEPT !.pc = "post_ok", !.opOk = TRUE,
                        !.posts = Posted(@, "chat", TRUE, ChatSuccessPayload(task[t].arg))]
         ELSE ChatCatch(@, Err("RunFailed", 0, <<>>))]
  /\ UNCHANGED <<maxRetries, fs, environmentThreads, nextThread, served, probe, codex>>

\* the POST of the success payload settled; a rejection enters the catch block
ChatPostOkReturn(t) ==
  /\ task[t].kind = "chat" /\ task[t].pc = "post_ok"
  /\ \E ok \in BOOLEAN :
       task' = [task EXCEPT ![t] =
         LET tk == [@ EXCEPT !.posts = Settled(@, ok)] IN
         IF ok THEN [tk EXCEPT !.pc = "done", !.promise = "resolved"]
         ELSE ChatCatch(tk, Err("WebhookFailed", 0, <<>>))]
  /\ UNCHANGED <<maxRetries, fs, environmentThreads, nextThread, served, probe, codex>>

\* the POST of the error payload settled: a rejection is only logged
ChatPostErrReturn(t) ==
  /\ task[t].kind = "chat" /\ task[t].pc = "post_err"
  /\ \E ok \in BOOLEAN :
       task' = [task EXCEPT ![t] =
         [@ EXCEPT !.posts = Settled(@, ok), !.pc = "done", !.promise = "resolved"]]
  /\ UNCHANGED <<maxRetries, fs, environmentThreads, nextThread, served, probe, codex>>

\* ------------------------------------------- streaming chat (handleChatStreaming)

\* events of the SDK stream: the type tag and, for item events, the item's type
Ev(type, item) == [type |-> type, item |-> item]
StreamEvents ==
  {Ev("thread.started", "none"), Ev("turn.started", "none"),
   Ev("turn.completed", "none"), Ev("turn.failed", "none"), Ev("error", "none"),
   Ev("item.started", "agent_message"), Ev("item.updated", "reasoning"),
   Ev("item.completed", "agent_message"), Ev("item.completed", "reasoning"),
   Ev("item.completed", "command_execution")}

\* event?.type?.startsWith('item.')
IsItemEvent(event) == event.type \in {"item.started", "item.updated", "item.completed"}

\* (mutant of Forwarded: every item event passes the filter)
Forwarded_AllItems(event) ==
  IF IsItemEvent(event) THEN TRUE
  ELSE event.type \in {"thread.started", "turn.completed"}

\* the filter at the head of the onEvent callback
Forwarded(event) ==
  IF IsItemEvent(event) THEN event.item \in {"agent_message", "reasoning"}
  ELSE event.type \in {"thread.started", "turn.completed"}

\* new Date().toISOString() when the payload is built
CaptureTime == "capture-time"

\* { ...base, ...event }: a key of event replaces the same key of base
Spread(base, event) == event @@ base

\* { success: true, env_id, event_number, timestamp, ...event }
StreamEventPayload(envId, n, event) ==
  Spread([success |-> TRUE, env_id |-> envId, event_number |-> n,
          timestamp |-> CaptureTime], event)
StreamErrorPayload(envId, err) ==
  [success |-> FALSE, env_id |-> envId, error |-> err]

\* the outer catch block of handleChatStreaming
StreamCatch(tk, err) ==
  [tk EXCEPT !.pc = "post_err", !.error = err,
             !.posts = Posted(tk.posts, "chat-streaming", TRUE,
                              StreamErrorPayload(tk.arg, err))]

\* router.post('/chat-streaming'): validation, then handleChatStreaming up to
\* its first await (thread.runStreamed, or the POST of the error payload)
PostChatStreaming(t, envId, prompt) ==
  /\ CanAccept(t)
  /\ served' = served + 1
  /\ task' = [task EXCEPT ![t] =
       IF envId = <<>> \/ prompt = "missing" THEN [Refused("stream", envId, BadRequest) EXCEPT !.prompt = prompt]
       ELSE IF prompt = "nonstring" THEN [Refused("stream", envId, ServerError) EXCEPT !.prompt = prompt]
       ELSE LET tk == [IdleTask EXCEPT !.kind = "stream", !.arg = envId, !.prompt = prompt,
                                       !.promise = "pending",
                                       !.response = ChatAccepted("chat-streaming", envId)] IN
            IF HasEnvironment(environmentThreads, envId)
            THEN [tk EXCEPT !.pc = "stream_start",
                            !.thread = environmentThreads[envId].thread.id,
                            !.calls = Bump(@, "run")]
            ELSE StreamCatch(tk, Err("EnvNotFound", 0, envId))]
  /\ UNCHANGED <<maxRetries, fs, environmentThreads, nextThread, probe, codex>>

\* thread.runStreamed settled: the for-await loop asks for the first event
StreamStartReturn(t) ==
  /\ task[t].kind = "stream" /\ task[t].pc = "stream_start"
  /\ \E ok \in BOOLEAN :
       task' = [task EXCEPT ![t] =
         IF ok THEN [@ EXCEPT !.pc = "stream_next"]
         ELSE StreamCatch(@, Err("RunFailed", 0, <<>>))]
  /\ UNCHANGED <<maxRetries, fs, environmentThreads, nextThread, served, probe, codex>>

\* (mutant of StreamEvent: a dropped event consumes a number too)
StreamEvent_CountsAll(t, event) ==
  /\ task[t].kind = "stream" /\ task[t].pc = "stream_next"
  /\ task[t].seen < MaxEvents
  /\ task' = [task EXCEPT ![t] =
       IF Forwarded(event)
       THEN [@ EXCEPT !.seen = @ + 1, !.event = event,
                      !.eventCount = @ + 1, !.pc = "stream_post",
                      !.posts = Posted(@, "chat-streaming", TRUE,
                                  StreamEventPayload(task[t].arg, task[t].eventCount + 1, event))]
       ELSE [@ EXCEPT !.seen = @ + 1, !.event = event, !.eventCount = @ + 1]]
  /\ UNCHANGED <<maxRetries, fs, environmentThreads, nextThread, served, probe, codex>>

\* (mutant of StreamEvent: the loop does not await onEvent, the next event is
\* taken while the POST of the last one is in flight)
StreamEvent_NoAwait(t, event) ==
  /\ task[t].kind = "stream" /\ task[t].pc \in {"stream_next", "stream_post"}
  /\ task[t].seen < MaxEvents
  /\ task' = [task EXCEPT ![t] =
       IF Forwarded(event)
       THEN [@ EXCEPT !.seen = @ + 1, !.event = event,
                      !.eventCount = @ + 1, !.pc = "stream_post",
                      !.posts = Posted(@, "chat-streaming", TRUE,
                                  StreamEventPayload(task[t].arg, task[t].eventCount + 1, event))]
       ELSE [@ EXCEPT !.seen = @ + 1, !.event = event]]
  /\ UNCHANGED <<maxRetries, fs, environmentThreads, nextThread, served, probe, codex>>

\* (mutant of StreamEvent: eventCount is one counter shared by all sessions)
StreamEvent_SharedCounter(t, event) ==
  /\ task[t].kind = "stream" /\ task[t].pc = "stream_next"
  /\ task[t].seen < MaxEvents
  /\ LET counts == {task[u].eventCount : u \in DOMAIN task}
         shared == CHOOSE x \in counts : \A y \in counts : y <= x IN
     task' = [task EXCEPT ![t] =
       IF Forwarded(event)
       THEN [@ EXCEPT !.seen = @ + 1, !.event = event,
                      !.eventCount = shared + 1, !.pc = "stream_post",
                      !.posts = Posted(@, "chat-streaming", TRUE,
                                  StreamEventPayload(task[t].arg, shared + 1, event))]
       ELSE [@ EXCEPT !.seen = @ + 1, !.event = event]]
  /\ UNCHANGED <<maxRetries, fs, environmentThreads, nextThread, served, probe, codex>>

\* the stream yields an event: onEvent filters it, counts it and POSTs it, or
\* drops it and the loop asks for the next one
StreamEvent(t, event) ==
  /\ task[t].kind = "stream" /\ task[t].pc = "stream_next"
  /\ task[t].seen < MaxEvents
  /\ task' = [task EXCEPT ![t] =
       IF Forwarded(event)
       THEN [@ EXCEPT !.seen = @ + 1, !.event = event,
                      !.eventCount = @ + 1, !.pc = "stream_post",
                      !.posts = Posted(@, "chat-streaming", TRUE,
                                  StreamEventPayload(task[t].arg, task[t].eventCount + 1, event))]
       ELSE [@ EXCEPT !.seen = @ + 1, !.event = event]]
  /\ UNCHANGED <<maxRetries, fs, environmentThreads, nextThread, served, probe, codex>>

\* (mutant of StreamPostReturn: a rejected POST is sent once more)
StreamPostReturn_Retries(t) ==
  /\ task[t].kind = "stream" /\ task[t].pc = "stream_post"
  /\ \E ok \in BOOLEAN :
       task' = [task EXCEPT ![t] =
         IF ok \/ HadRetry(task[t].posts)
         THEN [@ EXCEPT !.posts = Settled(@, ok), !.pc = "stream_next"]
         ELSE [@ EXCEPT !.posts = Posted(Settled(@, ok), "chat-streaming", TRUE,
                                         task[t].posts[Len(task[t].posts)].payload)]]
  /\ UNCHANGED <<maxRetries, fs, environmentThreads, nextThread, served, probe, codex>>

\* the POST of an event settled: a rejection is logged, the loop goes on
StreamPostReturn(t) ==
  /\ task[t].kind = "stream" /\ task[t].pc = "stream_post"
  /\ \E ok \in BOOLEAN :
       task' = [task EXCEPT ![t] =
         [@ EXCEPT !.posts = Settled(@, ok), !.pc = "stream_next"]]
  /\ UNCHANGED <<maxRetries, fs, environmentThreads, nextThread, served, probe, codex>>

\* the stream ends (runStreamWithHandler returns) or throws (outer catch)
StreamEnd(t) ==
  /\ task[t].kind = "stream" /\ task[t].pc = "stream_next"
  /\ \E ok \in BOOLEAN :
       task' = [task EXCEPT ![t] =
         IF ok THEN [@ EXCEPT !.pc = "done", !.promise = "resolved"]
         ELSE StreamCatch(@, Err("RunFailed", 0, <<>>))]
  /\ UNCHANGED <<maxRetries, fs, environmentThreads, nextThread, served, probe, codex>>

\* the POST of the error payload settled: a rejection is only logged
StreamPostErrReturn(t) ==
  /\ task[t].kind = "stream" /\ task[t].pc = "post_err"
  /\ \E ok \in BOOLEAN :
       task' = [task EXCEPT ![t] =
         [@ EXCEPT !.posts = Settled(@, ok), !.pc = "done", !.promise = "resolved"]]
  /\ UNCHANGED <<maxRetries, fs, environmentThreads, nextThread, served, probe, codex>>

\* ------------------------------------------------ theme list (fetchAndSendThemes)

ListAccepted == [status |-> 200, success |-> TRUE, message |-> <<"list accepted">>]
ListOutputs == {"empty", "garbage", "json-object", "json-array"}

\* listThemes after the command returned: stdout.trim() || stderr.trim(),
\* JSON.parse, themesRaw.map
ListResult(stdout, stderr) ==
  LET output == IF stdout # "empty" THEN stdout ELSE stderr IN
  IF output = "empty" THEN Err("NoOutput", 0, <<>>)
  ELSE IF output = "garbage" THEN Err("JsonSyntax", 0, <<>>)
  ELSE IF output = "json-object" THEN Err("TypeError", 0, <<>>)
  ELSE NoError

ListSuccessPayload == [success |-> TRUE, themes |-> "themes"]
ListErrorPayload(err) == [success |-> FALSE, themes |-> "none", error |-> err]

\* the catch block of fetchAndSendThemes: POST to config.WEBHOOK_URL itself
ListCatch(tk, err) ==
  [tk EXCEPT !.pc = "post_err", !.error = err,
             !.posts = Posted(tk.posts, "", FALSE, ListErrorPayload(err))]

\* router.get('/themes/list'): fetchAndSendThemes up to execAsync, then the response
GetThemesList(t) ==
  /\ CanAccept(t)
  /\ served' = served + 1
  /\ task' = [task EXCEPT ![t] =
       [IdleTask EXCEPT !.kind = "list", !.pc = "list", !.promise = "pending",
                        !.response = ListAccepted]]
  /\ UNCHANGED <<maxRetries, fs, environmentThreads, nextThread, probe, codex>>

\* the list command settled: POST the themes, or enter the catch block
ListReturn(t) ==
  /\ task[t].kind = "list" /\ task[t].pc = "list"
  /\ \E exitOk \in BOOLEAN, stdout \in ListOutputs, stderr \in ListOutputs :
       LET e == ListResult(stdout, stderr) IN
       task' = [task EXCEPT ![t] =
         IF ~exitOk THEN ListCatch(@, Err("ExecFailed", 0, <<>>))
         ELSE IF e # NoError THEN ListCatch(@, e)
         ELSE [@ EXCEPT !.pc = "post_ok", !.opOk = TRUE,
                        !.posts = Posted(@, "", FALSE, ListSuccessPayload)]]
  /\ UNCHANGED <<maxRetries, fs, environmentThreads, nextThread, served, probe, codex>>

\* the POST of the theme list settled; a rejection enters the catch block
ListPostOkReturn(t) ==
  /\ task[t].kind = "list" /\ task[t].pc = "post_ok"
  /\ \E ok \in BOOLEAN :
       task' = [task EXCEPT ![t] =
         LET tk == [@ EXCEPT !.posts = Settled(@, ok)] IN
         IF ok THEN [tk EXCEPT !.pc = "done", !.promise = "resolved"]
         ELSE ListCatch(tk, Err("WebhookFailed", 0, <<>>))]
  /\ UNCHANGED <<maxRetries, fs, environmentThreads, nextThread, served, probe, codex>>

\* the POST of the error payload settled: a rejection is only logged
ListPostErrReturn(t) ==
  /\ task[t].kind = "list" /\ task[t].pc = "post_err"
  /\ \E ok \in BOOLEAN :
       task' = [task EXCEPT ![t] =
         [@ EXCEPT !.posts = Settled(@, ok), !.pc = "done", !.promise = "resolved"]]
  /\ UNCHANGED <<maxRetries, fs, environmentThreads, nextThread, served, probe, codex>>

\* ------------------------------------------------------------ environment

\* something outside the server removes a theme directory
ExternalRemoveDir(id) ==
  /\ fs[id].exists
  /\ fs' = [fs EXCEPT ![id] = NoDir]
  /\ UNCHANGED <<maxRetries, environmentThreads, nextThread, served, task, probe, codex>>

Next ==
  \/ \E t \in Tasks, themeId \in RequestThemeIds : PostSelectedTheme(t, themeId)
  \/ \E t \in Tasks : DuplicateReturn(t)
  \/ \E t \in Tasks : WaitDone(t)
  \/ \E t \in Tasks : MkdirReturn(t)
  \/ \E t \in Tasks : PullReturn(t)
  \/ \E t \in Tasks : SleepDone(t)
  \/ \E t \in Tasks : SetupReturn(t)
  \/ \E t \in Tasks : DevCheckReturn(t)
  \/ \E t \in Tasks : DevWriteReturn(t)
  \/ \E t \in Tasks : DevChmodReturn(t)
  \/ \E t \in Tasks : DownloadPostOkReturn(t)
  \/ \E t \in Tasks : DownloadPostErrReturn(t)
  \/ \E t \in Tasks : PreviewSettles(t)
  \/ \E t \in Tasks, envId \in ChatEnvIdInputs, prompt \in PromptInputs :
       PostChat(t, envId, prompt)
  \/ \E t \in Tasks : ChatRunReturn(t)
  \/ \E t \in Tasks : ChatPostOkReturn(t)
  \/ \E t \in Tasks : ChatPostErrReturn(t)
  \/ \E t \in Tasks, envId \in ChatEnvIdInputs, prompt \in PromptInputs :
       PostChatStreaming(t, envId, prompt)
  \/ \E t \in Tasks : StreamStartReturn(t)
  \/ \E t \in Tasks, event \in StreamEvents : StreamEvent(t, event)
  \/ \E t \in Tasks : StreamPostReturn(t)
  \/ \E t \in Tasks : StreamEnd(t)
  \/ \E t \in Tasks : StreamPostErrReturn(t)
  \/ \E t \in Tasks : GetThemesList(t)
  \/ \E t \in Tasks : ListReturn(t)
  \/ \E t \in Tasks : ListPostOkReturn(t)
  \/ \E t \in Tasks : ListPostErrReturn(t)
  \/ \E envId \in ChatEnvIds : DeleteEnvironment(envId)
  \/ \E id \in NewThemeIds : ExternalRemoveDir(id)

Spec == Init /\ [][Next]_vars

\* ------------------------------------------------- envId as a pure function

ProbeChars == {"a", "Z", "7", "/", "_"}
RECURSIVE SeqsUpTo(_, _)
SeqsUpTo(S, n) ==
  IF n = 0 THEN {<<>>}
  ELSE LET shorter == SeqsUpTo(S, n - 1) IN
       shorter \cup {Append(q, c) : q \in {x \in shorter : Len(x) = n - 1}, c \in S}
\* the working directory of the README's example, /themes/123456789
ReadmeDir == <<"/", "t", "h", "e", "m", "e", "s", "/",
               "1", "2", "3", "4", "5", "6", "7", "8", "9">>

ProbeDirs == SeqsUpTo(ProbeChars, MaxDirLen) \cup {ReadmeDir}

\* the envId line of setupEnvironment applied to two working directories
DeriveEnvIds(a, b) ==
  /\ probe' = [NoProbe EXCEPT !.a = a, !.b = b, !.ea = EnvIdOf(a), !.eb = EnvIdOf(b)]
  /\ UNCHANGED <<maxRetries, fs, environmentThreads, nextThread, served, task, codex>>

NextEnvId ==
  /\ probe = NoProbe
  /\ \E a \in ProbeDirs, b \in ProbeDirs : DeriveEnvIds(a, b)

InitEnvId == Init /\ maxRetries = 0

SpecEnvId == InitEnvId /\ [][NextEnvId]_vars

\* ------------------------------------------- the session registry by itself

\* callers of setupEnvironment in flight: one slot per call, never reused
RegTasks == 1..MaxSetups

\* working directories (two of them share an envId) and models ("" is an
\* absent or empty model) handed to setupEnvironment; ids handed to the
\* synchronous methods
RegDirs == {<<"/", "a">>, <<"_", "a">>, <<"/", "b">>}
RegModels == {"", "gpt-5-codex"}
RegEnvIds == {EnvIdOf(wd) : wd \in RegDirs} \cup {<<"x">>}

\* getEnvironment(envId)
GetEnvironment(m, envId) == IF envId \in DOMAIN m THEN m[envId] ELSE Undefined

\* listEnvironments(): the array of { envId, ...env }, as a set
ListEnvironments(m) ==
  {[envId |-> k, thread |-> m[k].thread, workingDirectory |-> m[k].workingDirectory,
    model |-> m[k].model, createdAt |-> m[k].createdAt] : k \in DOMAIN m}

InitRegistry ==
  /\ maxRetries = 0
  /\ fs = [i \in NewThemeIds |-> NoDir]
  /\ environmentThreads = EmptyMap
  /\ nextThread = 1
  /\ served = 0
  /\ task = [t \in RegTasks |-> IdleTask]
  /\ probe = NoProbe
  /\ codex = NoCodex

\* (mutant of SetupEnvironmentCall: the entry is stored before the session exists)
SetupEnvironmentCall_StoresEarly(t, workingDirectory, model) ==
  /\ task[t].pc = "idle"
  /\ task' = [task EXCEPT ![t] =
       [IdleTask EXCEPT !.kind = "setup", !.pc = "start_thread",
                        !.arg = workingDirectory, !.model = model,
                        !.promise = "pending"]]
  /\ environmentThreads' =
       MapSet(environmentThreads, EnvIdOf(workingDirectory),
              [thread |-> [id |-> 0, options |-> StartThreadOptions(
                             SetupThreadRequest(workingDirectory, model))],
               workingDirectory |-> workingDirectory,
               model |-> ModelOrDefault(model), createdAt |-> 0])
  /\ UNCHANGED <<maxRetries, fs, nextThread, served, probe, codex>>

\* setupEnvironment(workingDirectory, model) up to its first suspension: it
\* calls startThread, which awaits getCodex()
SetupEnvironmentCall(t, workingDirectory, model) ==
  /\ task[t].pc = "idle"
  /\ task' = [task EXCEPT ![t] =
       [IdleTask EXCEPT !.kind = "setup", !.pc = "start_thread",
                        !.arg = workingDirectory, !.model = model,
                        !.promise = "pending"]]
  /\ UNCHANGED <<maxRetries, fs, environmentThreads, nextThread, served, probe, codex>>

\* (mutant of SetupEnvironmentResume: an id already in the map makes the call fail)
SetupEnvironmentResume_Unique(t) ==
  /\ task[t].kind = "setup" /\ task[t].pc = "start_thread"
  /\ \E ok \in BOOLEAN :
       LET wd == task[t].arg
           envId == EnvIdOf(wd) IN
       IF ok /\ envId \notin DOMAIN environmentThreads
       THEN /\ environmentThreads' =
                 MapSet(environmentThreads, envId,
                        EnvironmentEntry(
                          NewThread(nextThread, SetupThreadRequest(wd, task[t].model)),
                          wd, task[t].model, nextThread))
            /\ nextThread' = nextThread + 1
            /\ task' = [task EXCEPT ![t] =
                 [@ EXCEPT !.pc = "done", !.promise = "resolved", !.envId = envId,
                           !.opOk = ok, !.thread = nextThread]]
       ELSE /\ task' = [task EXCEPT ![t] =
                 [@ EXCEPT !.pc = "failed", !.promise = "rejected", !.opOk = ok,
                           !.error = Err("StartThreadFailed", 0, <<>>)]]
            /\ UNCHANGED <<environmentThreads, nextThread>>
  /\ UNCHANGED <<maxRetries, fs, served, probe, codex>>

\* setupEnvironment resumes when startThread settled (opOk: it gave a thread):
\* a rejection leaves it; otherwise it derives envId, stores the entry and
\* returns
SetupEnvironmentResume(t) ==
  /\ task[t].kind = "setup" /\ task[t].pc = "start_thread"
  /\ \E ok \in BOOLEAN :
       IF ok
       THEN LET wd == task[t].arg
                envId == EnvIdOf(wd) IN
            /\ environmentThreads' =
                 MapSet(environmentThreads, envId,
                        EnvironmentEntry(
                          NewThread(nextThread, SetupThreadRequest(wd, task[t].model)),
                          wd, task[t].model, nextThread))
            /\ nextThread' = nextThread + 1
            /\ task' = [task EXCEPT ![t] =
                 [@ EXCEPT !.pc = "done", !.promise = "resolved", !.envId = envId,
                           !.opOk = ok, !.thread = nextThread]]
       ELSE /\ task' = [task EXCEPT ![t] =
                 [@ EXCEPT !.pc = "failed", !.promise = "rejected", !.opOk = ok,
                           !.error = Err("StartThreadFailed", 0, <<>>)]]
            /\ UNCHANGED <<environmentThreads, nextThread>>
  /\ UNCHANGED <<maxRetries, fs, served, probe, codex>>

\* a caller reads one entry
GetEnvironmentCall(envId) ==
  /\ probe' = [NoProbe EXCEPT !.op = "get", !.envId = envId,
                              !.returned = HasEnvironment(environmentThreads, envId),
                              !.entry = GetEnvironment(environmentThreads, envId)]
  /\ UNCHANGED <<maxRetries, fs, environmentThreads, nextThread, served, task, codex>>

\* a caller lists the entries
ListEnvironmentsCall ==
  /\ probe' = [NoProbe EXCEPT !.op = "list",
                              !.listed = ListEnvironments(environmentThreads)]
  /\ UNCHANGED <<maxRetries, fs, environmentThreads, nextThread, served, task, codex>>

\* a caller removes an entry, present or not
RemoveEnvironmentCall(envId) ==
  /\ probe' = [NoProbe EXCEPT !.op = "remove", !.envId = envId,
                              !.returned = RemoveEnvironment(environmentThreads, envId).deleted]
  /\ environmentThreads' = RemoveEnvironment(environmentThreads, envId).map
  /\ UNCHANGED <<maxRetries, fs, nextThread, served, task, codex>>

\* options a caller of startThread may pass
StartThreadRequests ==
  {ThreadRequest(<<"/", "a">>, skip, "gpt-5-codex", approval, sandbox, yolo) :
     skip \in {Absent, "true", "false"},
     approval \in {Absent, "", "never", "on-request"},
     sandbox \in {Absent, "read-only", "danger-full-access"},
     yolo \in {Absent, "true", "false"}}

\* a caller starts a thread of its own: the threadOptions that reach the SDK
StartThreadCall(options) ==
  /\ probe' = [NoProbe EXCEPT !.op = "startThread", !.request = options,
                              !.threadOptions = StartThreadOptions(options)]
  /\ UNCHANGED <<maxRetries, fs, environmentThreads, nextThread, served, task, codex>>

NextRegistry ==
  \/ \E t \in RegTasks, wd \in RegDirs, model \in RegModels :
       SetupEnvironmentCall(t, wd, model)
  \/ \E t \in RegTasks : SetupEnvironmentResume(t)
  \/ \E envId \in RegEnvIds : GetEnvironmentCall(envId)
  \/ ListEnvironmentsCall
  \/ \E envId \in RegEnvIds : RemoveEnvironmentCall(envId)

SpecRegistry == InitRegistry /\ [][NextRegistry]_vars

\* the sessions the service starts: those of setupEnvironment, and one
\* startThread call made by a caller of its own
NextThreads ==
  \/ \E t \in RegTasks, wd \in RegDirs, model \in RegModels :
       SetupEnvironmentCall(t, wd, model)
  \/ \E t \in RegTasks : SetupEnvironmentResume(t)
  \/ /\ probe = NoProbe
     /\ \E options \in StartThreadRequests : StartThreadCall(options)

SpecThreads == InitRegistry /\ [][NextThreads]_vars

\* ------------------------------------------------- CodexService.getCodex

\* (mutant of GetCodexCall: the cache test is on codexInstance alone, so every
\* caller that arrives before the client exists starts an initialization)
GetCodexCall_NoPromiseCache(c) ==
  /\ codex.caller[c].pc = "idle"
  /\ LET starts == codex.codexInstance = 0
         promises == IF starts THEN Append(codex.promises, [state |-> "pending", value |-> 0])
                     ELSE codex.promises
         promise == IF starts THEN Len(promises) ELSE codex.codexPromise IN
     codex' = [codex EXCEPT
       !.promises = promises,
       !.codexPromise = promise,
       !.caller[c] = IF codex.codexInstance = 0
                     THEN [pc |-> "await", awaits |-> promise, client |-> 0]
                     ELSE [pc |-> "returned", awaits |-> 0, client |-> codex.codexInstance]]
  /\ UNCHANGED <<maxRetries, fs, environmentThreads, nextThread, served, task, probe>>

\* getCodex up to its await: initializeCodex is called when codexPromise is
\* unset; with codexInstance unset the caller awaits codexPromise, otherwise
\* it returns codexInstance
GetCodexCall(c) ==
  /\ codex.caller[c].pc = "idle"
  /\ LET starts == codex.codexPromise = 0
         promises == IF starts THEN Append(codex.promises, [state |-> "pending", value |-> 0])
                     ELSE codex.promises
         promise == IF starts THEN Len(promises) ELSE codex.codexPromise IN
     codex' = [codex EXCEPT
       !.promises = promises,
       !.codexPromise = promise,
       !.caller[c] = IF codex.codexInstance = 0
                     THEN [pc |-> "await", awaits |-> promise, client |-> 0]
                     ELSE [pc |-> "returned", awaits |-> 0, client |-> codex.codexInstance]]
  /\ UNCHANGED <<maxRetries, fs, environmentThreads, nextThread, served, task, probe>>

\* initializeCodex settles: the import succeeded and new mod.Codex() made a
\* client, or the import or the constructor threw
InitializeSettles(i) ==
  /\ i \in 1..Len(codex.promises)
  /\ codex.promises[i].state = "pending"
  /\ \E ok \in BOOLEAN :
       codex' = [codex EXCEPT
         !.constructed = IF ok THEN @ + 1 ELSE @,
         !.promises[i] = IF ok THEN [state |-> "fulfilled", value |-> codex.constructed + 1]
                         ELSE [state |-> "rejected", value |-> 0]]
  /\ UNCHANGED <<maxRetries, fs, environmentThreads, nextThread, served, task, probe>>

\* getCodex resumes after its await: the value of the promise becomes
\* codexInstance and is returned, or the rejection leaves getCodex
GetCodexResume(c) ==
  /\ codex.caller[c].pc = "await"
  /\ LET promise == codex.promises[codex.caller[c].awaits] IN
     /\ promise.state # "pending"
     /\ codex' =
          IF promise.state = "fulfilled"
          THEN [codex EXCEPT
                  !.codexInstance = promise.value,
                  !.caller[c] = [pc |-> "returned", awaits |-> 0, client |-> promise.value]]
          ELSE [codex EXCEPT !.caller[c] = [pc |-> "threw", awaits |-> 0, client |-> 0]]
  /\ UNCHANGED <<maxRetries, fs, environmentThreads, nextThread, served, task, probe>>

NextCodex ==
  \/ \E c \in CodexCallers : GetCodexCall(c)
  \/ \E i \in 1..(MaxSetups + 2) : InitializeSettles(i)
  \/ \E c \in CodexCallers : GetCodexResume(c)

SpecCodex == InitRegistry /\ [][NextCodex]_vars

\* ------------------------------------ every external call settles at last

\* the steps of a download task are the returns of its external calls: the
\* CLI commands, the timers, the session creation, the file system calls and
\* the webhook POSTs; each of them settles at last
DownloadCallsSettle ==
  \A t \in Tasks :
    /\ WF_vars(DuplicateReturn(t))
    /\ WF_vars(WaitDone(t))
    /\ WF_vars(MkdirReturn(t))
    /\ WF_vars(PullReturn(t))
    /\ WF_vars(SleepDone(t))
    /\ WF_vars(SetupReturn(t))
    /\ WF_vars(DevCheckReturn(t))
    /\ WF_vars(DevWriteReturn(t))
    /\ WF_vars(DevChmodReturn(t))
    /\ WF_vars(DownloadPostOkReturn(t))
    /\ WF_vars(DownloadPostErrReturn(t))

SpecLive == Init /\ [][Next]_vars /\ DownloadCallsSettle

\* ------------------------------------------ two streaming chats at once

\* two background streaming tasks in flight together, and one caller of
\* setupEnvironment that provisions the environment they talk to
StreamTasks == {1, 2}
SetupTask == 3
PairEnvDir == ThemePath(<<"7">>)
PairEnvIds == {EnvIdOf(PairEnvDir), <<"x">>}
PairStreamEvents ==
  {Ev("thread.started", "none"), Ev("turn.started", "none"),
   Ev("item.completed", "agent_message"), Ev("turn.completed", "none")}

InitStreams ==
  /\ maxRetries = 0
  /\ fs = [i \in NewThemeIds |-> NoDir]
  /\ environmentThreads = EmptyMap
  /\ nextThread = 1
  /\ served = 0
  /\ task = [t \in StreamTasks \cup {SetupTask} |-> IdleTask]
  /\ probe = NoProbe
  /\ codex = NoCodex

\* each of the two tasks serves one request
NextStreams ==
  \/ SetupEnvironmentCall(SetupTask, PairEnvDir, ConfigCodexModel)
  \/ SetupEnvironmentResume(SetupTask)
  \/ \E t \in StreamTasks, envId \in PairEnvIds :
       task[t].pc = "idle" /\ PostChatStreaming(t, envId, "text")
  \/ \E t \in StreamTasks : StreamStartReturn(t)
  \/ \E t \in StreamTasks, event \in PairStreamEvents : StreamEvent(t, event)
  \/ \E t \in StreamTasks : StreamPostReturn(t)
  \/ \E t \in StreamTasks : StreamEnd(t)
  \/ \E t \in StreamTasks : StreamPostErrReturn(t)

SpecStreams == InitStreams /\ [][NextStreams]_vars

\* -------------------------------- a chat next to changes of the registry

\* one background chat task, and two callers of setupEnvironment on the
\* directory the chat talks to; environments are removed at any time
ChatTask == 1
SetupTasks == {2, SetupTask}

NextChatRace ==
  \/ \E t \in SetupTasks : SetupEnvironmentCall(t, PairEnvDir, ConfigCodexModel)
  \/ \E t \in SetupTasks : SetupEnvironmentResume(t)
  \/ \E envId \in PairEnvIds :
       task[ChatTask].pc = "idle" /\ PostChat(ChatTask, envId, "text")
  \/ ChatRunReturn(ChatTask)
  \/ ChatPostOkReturn(ChatTask)
  \/ ChatPostErrReturn(ChatTask)
  \/ \E envId \in PairEnvIds : DeleteEnvironment(envId)

SpecChatRace == InitStreams /\ [][NextChatRace]_vars

\* ------------------------------------------- the payload of one stream event

\* CodexEvent declares [key: string]: any: next to type and item an event may
\* carry any other key, those the forwarder sets included
ClashKeys == {"success", "env_id", "event_number", "timestamp"}
EventValue ==
  [success |-> FALSE, env_id |-> <<"e">>, event_number |-> 0,
   timestamp |-> "event-time"]
Extras == {[k \in ks |-> EventValue[k]] : ks \in SUBSET ClashKeys}
PayloadEvents == {Spread(e, x) : e \in {ev \in StreamEvents : Forwarded(ev)}, x \in Extras}

\* onEvent builds the payload of the n-th forwarded event of a session on envId
EventPayloadCall(envId, n, event) ==
  /\ probe' = [NoProbe EXCEPT !.op = "eventPayload", !.envId = envId,
                              !.request = [n |-> n, event |-> event],
                              !.entry = StreamEventPayload(envId, n, event)]
  /\ UNCHANGED <<maxRetries, fs, environmentThreads, nextThread, served, task, codex>>

NextPayload ==
  /\ probe = NoProbe
  /\ \E envId \in ChatEnvIds, n \in 1..MaxEvents, event \in PayloadEvents :
       EventPayloadCall(envId, n, event)

SpecPayload == InitRegistry /\ [][NextPayload]_vars

\* duplicateTheme as a whole: execAsync rejects when the command exits with a
\* non-zero status, otherwise the channels decide
DuplicateTheme(exitOk, stdout, stderr) ==
  IF ~exitOk THEN [ok |-> FALSE, id |-> <<>>, err |-> Err("ExecFailed", 0, <<>>)]
  ELSE DuplicateResult(stdout, stderr)

\* a caller runs duplicateTheme on its own; what the command did is recorded
\* next to what duplicateTheme returned or threw
DuplicateThemeCall(exitOk, stdout, stderr) ==
  /\ probe' = [NoProbe EXCEPT !.op = "duplicateTheme",
                              !.request = [exitOk |-> exitOk, stdout |-> stdout,
                                           stderr |-> stderr],
                              !.entry = DuplicateTheme(exitOk, stdout, stderr)]
  /\ UNCHANGED <<maxRetries, fs, environmentThreads, nextThread, served, task, codex>>

NextDuplicate ==
  /\ probe = NoProbe
  /\ \E exitOk \in BOOLEAN, stdout \in CliOutputs, stderr \in CliOutputs :
       DuplicateThemeCall(exitOk, stdout, stderr)

SpecDuplicate == InitRegistry /\ [][NextDuplicate]_vars

\* ------------------------------------------- two download workflows at once

\* two background download tasks in flight together
PairTasks == {1, 2}

InitPair ==
  /\ maxRetries \in 0..MaxRetriesBound
  /\ fs = [i \in NewThemeIds |-> NoDir]
  /\ environmentThreads = EmptyMap
  /\ nextThread = 1
  /\ served = 0
  /\ task = [t \in PairTasks |-> IdleTask]
  /\ probe = NoProbe
  /\ codex = NoCodex

\* each of the two tasks serves one request
NextPair ==
  \/ \E t \in PairTasks, themeId \in RequestThemeIds :
       task[t].pc = "idle" /\ PostSelectedTheme(t, themeId)
  \/ \E t \in PairTasks : DuplicateReturn(t)
  \/ \E t \in PairTasks : WaitDone(t)
  \/ \E t \in PairTasks : MkdirReturn(t)
  \/ \E t \in PairTasks : PullReturn(t)
  \/ \E t \in PairTasks : SleepDone(t)
  \/ \E t \in PairTasks : SetupReturn(t)
  \/ \E t \in PairTasks : DevCheckReturn(t)
  \/ \E t \in PairTasks : DevWriteReturn(t)
  \/ \E t \in PairTasks : DevChmodReturn(t)
  \/ \E t \in PairTasks : DownloadPostOkReturn(t)
  \/ \E t \in PairTasks : DownloadPostErrReturn(t)
  \/ \E id \in NewThemeIds : ExternalRemoveDir(id)

SpecPair == InitPair /\ [][NextPair]_vars

\* ================================================================ properties

Runs(kinds) == {t \in Tasks : task[t].kind \in kinds /\ task[t].promise # "none"}
Last(q) == q[Len(q)]

\* the listings of a pull phase: the directory was there and empty each time
AllEmpty(log) == \A i \in 1..Len(log) : log[i].dirExists /\ ~log[i].nonEmpty

\* the pull phase of a download run is over
PullOver(tk) == tk.pullLog # <<>> /\ tk.pc \notin {"pull", "sleep"}

\* C1: every run of the download workflow and of the non-streaming chat handler
\* attempts exactly one webhook POST in total: never a second one while it
\* runs, exactly one once it has finished, and that one is the success payload
\* iff the operation succeeded
C1_ExactlyOneWebhook ==
  \A t \in Runs({"download", "chat"}) :
    /\ Len(task[t].posts) <= 1
    /\ task[t].pc = "done" =>
         /\ Len(task[t].posts) = 1
         /\ task[t].posts[1].payload.success = task[t].opOk

\* C2: with maxRetries = N, a pull phase whose listings were empty on attempts
\* 0..N-1 and non-empty on attempt N ends with pullTheme returning the path
\* after exactly N+1 pull commands and exactly N delays
C2_SucceedsOnLastAttempt ==
  \A t \in Runs({"download"}) :
    LET tk == task[t] IN
    ( /\ PullOver(tk)
      /\ Len(tk.pullLog) = maxRetries + 1
      /\ AllEmpty(SubSeq(tk.pullLog, 1, maxRetries))
      /\ Last(tk.pullLog).dirExists /\ Last(tk.pullLog).nonEmpty )
    => /\ tk.calls.setup = 1
       /\ tk.calls.pull = maxRetries + 1
       /\ tk.calls.sleep = maxRetries

\* C3: with maxRetries = N, a pull phase in which the directory was empty after
\* every attempt ends in failure after exactly N+1 pull commands, and the error
\* carries N+1
C3_ExhaustedAfterAllAttempts ==
  \A t \in Runs({"download"}) :
    LET tk == task[t] IN
    (PullOver(tk) /\ AllEmpty(tk.pullLog))
    => /\ tk.calls.pull = maxRetries + 1
       /\ tk.calls.setup = 0
       /\ tk.error = Err("PullExhausted", maxRetries + 1, <<>>)

\* C4: the outcome of a pull attempt is decided by the listing alone: after an
\* attempt whose command reported failure, a non-empty directory means
\* pullTheme returned, and an empty one with attempts left means the next
\* attempt is on its way
C4_ListingDecides ==
  \A t \in Runs({"download"}) :
    LET tk == task[t] IN
    (tk.pullLog # <<>> /\ ~Last(tk.pullLog).exitOk /\ Last(tk.pullLog).dirExists)
    => /\ Last(tk.pullLog).nonEmpty => tk.calls.setup = 1
       /\ (~Last(tk.pullLog).nonEmpty /\ Last(tk.pullLog).attempt < maxRetries)
            => tk.pc \in {"sleep", "pull"}

\* the errors each workflow step raises on its own (an ExecFailed comes from
\* the duplicate, the pull or the chmod command)
DuplicateErrors == {"NoOutput", "JsonSyntax", "TypeError", "DuplicationFailed"}
StepFailed(tk) == tk.error.kind \notin {"none", "WebhookFailed"}

\* the same run goes from this state to the next
SameRun(t) == served' = served /\ task'[t].kind = task[t].kind

\* what a failed step leaves behind: no later step started, and the failure
\* payload with the step's error is the only webhook
C5_StateOk(tk) ==
  /\ tk.error.kind \in DuplicateErrors =>
       tk.calls = [NoCalls EXCEPT !.dup = 1] /\ tk.pullLog = <<>>
  /\ tk.error.kind = "PullExhausted" =>
       tk.calls.setup = 0 /\ tk.calls.dev = 0 /\ tk.calls.spawn = 0
  /\ tk.error.kind = "StartThreadFailed" => tk.calls.dev = 0 /\ tk.calls.spawn = 0
  /\ tk.error.kind \in {"DirNotFound", "FsError", "ExecFailed"} => tk.calls.spawn = 0
  /\ StepFailed(tk) =>
       /\ Len(tk.posts) = 1
       /\ tk.posts[1].payload = [success |-> FALSE, error |-> tk.error]

\* C5: in the download workflow a step that fails is the last step of the run:
\* once a step has raised its error no step is started any more, a run whose
\* duplicate command printed nothing has started neither the wait, the pull,
\* the provisioning nor the preview, and the only webhook of a failed run is
\* the failure payload with the failed step's error
C5_FailureStopsWorkflow ==
  /\ [](\A t \in Runs({"download"}) : C5_StateOk(task[t]))
  /\ [][\A t \in Runs({"download"}) :
          (StepFailed(task[t]) /\ SameRun(t)) =>
             /\ task'[t].calls = task[t].calls
             /\ task'[t].pullLog = task[t].pullLog
             /\ task'[t].error = task[t].error]_vars

C5_Witness ==
  \E t \in Runs({"download"}) :
    /\ task[t].pc = "done"
    /\ task[t].error.kind = "NoOutput"
    /\ Len(task[t].posts) = 1

\* C6: a download run POSTs a success:false payload only for an error raised by
\* one of its steps, and a run whose steps all succeeded POSTs none
C6_FailurePayloadOnlyForStepError ==
  \A t \in Runs({"download"}) :
    \A i \in 1..Len(task[t].posts) :
      ~task[t].posts[i].payload.success =>
         /\ ~task[t].opOk
         /\ task[t].posts[i].payload.error.kind \notin {"none", "WebhookFailed"}

\* C7: when duplicate, pull, provisioning and preview launch all succeeded, the
\* first webhook is { success: true, theme_id, env_id } with the id the
\* duplicate step returned and the id derived from the pulled path, and that
\* env_id is the registry key under which the run stored its session
C7_SuccessPayload ==
  /\ [](\A t \in Runs({"download"}) :
          task[t].opOk =>
            /\ task[t].posts # <<>>
            /\ task[t].posts[1].payload.success
            /\ task[t].posts[1].payload.theme_id = task[t].newThemeId
            /\ task[t].posts[1].payload.env_id = task[t].envId
            /\ task[t].posts[1].payload.env_id
                 = <<"_", "t", "_">> \o task[t].newThemeId)
  /\ [][\A t \in Runs({"download"}) :
          (SameRun(t) /\ task[t].pc = "setup" /\ task'[t].pc = "dev_check") =>
             /\ task'[t].envId \in DOMAIN environmentThreads'
             /\ environmentThreads'[task'[t].envId].thread.id = nextThread
             /\ environmentThreads'[task'[t].envId].workingDirectory
                  = <<"/", "t", "/">> \o task[t].newThemeId]_vars

C7_Witness ==
  \E t \in Runs({"download"}) :
    /\ task[t].pc = "done" /\ task[t].opOk
    /\ task[t].posts[1].status = "ok"
    /\ task[t].posts[1].payload.theme_id = <<"8">>

\* a webhook POST of task t is rejected in this step
PostFails(t) ==
  /\ SameRun(t)
  /\ task[t].posts # <<>>
  /\ Last(task[t].posts).status = "inflight"
  /\ task'[t].posts[Len(task[t].posts)].status = "failed"

HasFailedPost(tk) == \E i \in 1..Len(tk.posts) : tk.posts[i].status = "failed"

AllKinds == {"download", "chat", "stream", "list"}

IsAcceptance(resp) == resp.status = 200 /\ resp.success

\* C9: a download request and a valid chat request are answered with the
\* acceptance acknowledgment while the background task is still pending; the
\* answer never changes afterwards, whatever the outcome, and does not depend
\* on the outcome
C9_ResponseBeforeOutcome ==
  /\ [](\A t \in Runs({"download", "chat", "stream"}) :
          /\ IsAcceptance(task[t].response)
          /\ task[t].response.message = <<
               CASE task[t].kind = "download" -> "download accepted"
                 [] task[t].kind = "chat" -> "chat"
                 [] OTHER -> "chat-streaming", task[t].arg>>)
  /\ [][\A t \in Tasks :
          /\ (served' = served + 1 /\ task'[t].kind \in {"download", "chat", "stream"}
                /\ task'[t].pc # "refused")
               => (task'[t].promise = "pending" /\ IsAcceptance(task'[t].response))
          /\ SameRun(t) => task'[t].response = task[t].response]_vars

C9_Witness ==
  \E t \in Runs({"chat"}) :
    /\ task[t].pc = "done"
    /\ task[t].error.kind = "EnvNotFound"
    /\ IsAcceptance(task[t].response)

\* [a-zA-Z0-9] among the characters the probes are made of
ProbeAlnum == {"a", "Z", "t", "h", "e", "m", "s",
               "1", "2", "3", "4", "5", "6", "7", "8", "9"}

SetupStores(t) == task[t].pc = "start_thread" /\ task'[t].pc = "done"

\* C11 (as stated): right after setupEnvironment(workingDirectory, model) has
\* returned, getEnvironment on the derived envId returns an entry whose
\* workingDirectory and model are exactly the arguments passed, an absent or
\* empty model included
C11_GetReturnsWhatWasPassed ==
  [][\A t \in RegTasks :
       SetupStores(t) =>
         LET e == GetEnvironment(environmentThreads', EnvIdOf(task[t].arg)) IN
         /\ e # Undefined
         /\ e.workingDirectory = task[t].arg
         /\ e.model = task[t].model]_vars

\* C11 (amended): right after setupEnvironment(workingDirectory, model) has
\* returned, getEnvironment on the derived envId returns an entry whose
\* workingDirectory is the one passed and whose model is the one passed when
\* that is a non-empty string, and 'gpt-5.1-codex-max' when the model was
\* absent or empty
C11_GetReturnsPassedOrDefault ==
  [][\A t \in RegTasks :
       SetupStores(t) =>
         LET e == GetEnvironment(environmentThreads', task'[t].envId) IN
         /\ task'[t].envId = [i \in 1..Len(task[t].arg) |->
                                IF task[t].arg[i] \in {"a", "b"} THEN task[t].arg[i] ELSE "_"]
         /\ e # Undefined
         /\ e.workingDirectory = task[t].arg
         /\ task[t].model # "" => e.model = task[t].model
         /\ task[t].model = "" => e.model = "gpt-5.1-codex-max"]_vars

C11_Witness ==
  \E t \in RegTasks :
    /\ task[t].kind = "setup" /\ task[t].pc = "done" /\ task[t].model = ""
    /\ probe.op = "get" /\ probe.envId = task[t].envId
    /\ probe.entry.thread.id = task[t].thread
    /\ probe.entry.model = "gpt-5.1-codex-max"

\* removeEnvironment(envId) is called in this step
Removes(envId) ==
  /\ task' = task
  /\ probe'.op = "remove" /\ probe'.envId = envId
  /\ (probe' # probe \/ environmentThreads' # environmentThreads)

\* C12: removeEnvironment(envId) on an id the registry does not hold returns
\* false and changes no entry; on an id it holds it returns true, removes that
\* entry and no other, and getEnvironment(envId) then returns undefined
C12_RemoveFrame ==
  [][\A envId \in RegEnvIds :
       Removes(envId) =>
         /\ envId \notin DOMAIN environmentThreads =>
              /\ probe'.returned = FALSE
              /\ environmentThreads' = environmentThreads
         /\ envId \in DOMAIN environmentThreads =>
              /\ probe'.returned = TRUE
              /\ DOMAIN environmentThreads' = (DOMAIN environmentThreads) \ {envId}
              /\ \A k \in DOMAIN environmentThreads' :
                   environmentThreads'[k] = environmentThreads[k]
              /\ GetEnvironment(environmentThreads', envId) = Undefined]_vars

C12_Witness ==
  /\ probe.op = "remove" /\ probe.returned
  /\ probe.envId = <<"_", "a">>
  /\ DOMAIN environmentThreads = {<<"_", "b">>}

\* C13: the registry never lists two entries with one envId; a
\* setupEnvironment whose session was created stores its entry whether or not
\* the derived envId is already a key, and then the entry under that key is
\* the new one in every field (session handle, workingDirectory, model,
\* createdAt) while every other entry is as it was
C13_OverwriteOnCollision ==
  /\ [](\A e1, e2 \in ListEnvironments(environmentThreads) :
          e1.envId = e2.envId => e1 = e2)
  /\ [](\A e1, e2 \in probe.listed : e1.envId = e2.envId => e1 = e2)
  /\ [][\A t \in RegTasks :
          (task[t].pc = "start_thread" /\ task'[t].pc # "start_thread") =>
             LET envId == EnvIdOf(task[t].arg) IN
             IF task'[t].opOk
             THEN /\ task'[t].pc = "done"
                  /\ nextThread' = nextThread + 1
                  /\ DOMAIN environmentThreads' = (DOMAIN environmentThreads) \cup {envId}
                  /\ environmentThreads'[envId].thread.id = nextThread
                  /\ environmentThreads'[envId].thread.options.workingDirectory = task[t].arg
                  /\ environmentThreads'[envId].workingDirectory = task[t].arg
                  /\ environmentThreads'[envId].model = ModelOrDefault(task[t].model)
                  /\ environmentThreads'[envId].createdAt = nextThread
                  /\ \A k \in (DOMAIN environmentThreads) \ {envId} :
                       environmentThreads'[k] = environmentThreads[k]
             ELSE /\ task'[t].error.kind = "StartThreadFailed"
                  /\ environmentThreads' = environmentThreads]_vars

\* two working directories with one envId were set up, and the later entry
\* is the one the registry holds
C13_Witness ==
  \E t, u \in RegTasks :
    /\ task[t].pc = "done" /\ task[u].pc = "done"
    /\ task[t].thread = 1 /\ task[u].thread = 2
    /\ task[t].arg = <<"/", "a">> /\ task[u].arg = <<"_", "a">>
    /\ DOMAIN environmentThreads = {<<"_", "a">>}
    /\ environmentThreads[<<"_", "a">>].thread.id = 2
    /\ environmentThreads[<<"_", "a">>].workingDirectory = <<"_", "a">>

\* the stream of task t yields an event in this step
Yields(t) ==
  /\ SameRun(t) /\ task[t].kind = "stream"
  /\ task'[t].seen = task[t].seen + 1

\* the event yielded in this step is POSTed in this step
ForwardedNow(t) ==
  /\ Len(task'[t].posts) = Len(task[t].posts) + 1
  /\ Last(task'[t].posts).payload.success
  /\ Last(task'[t].posts).payload.type = task'[t].event.type
  /\ Last(task'[t].posts).payload.item = task'[t].event.item

\* C14 (as stated): an event of a streaming chat is forwarded iff it is an
\* item.completed event whose item is an agent_message or a reasoning item, or
\* a thread.started or turn.completed event; item.started and item.updated
\* events are never forwarded
C14_OnlyCompletedItems ==
  [][\A t \in Tasks :
       Yields(t) =>
         LET e == task'[t].event IN
         ForwardedNow(t) <=>
           \/ e.type = "item.completed" /\ e.item \in {"agent_message", "reasoning"}
           \/ e.type \in {"thread.started", "turn.completed"}]_vars

\* C14 (amended): an event of a streaming chat is forwarded iff it is an item
\* event (item.started, item.updated or item.completed) whose item is an
\* agent_message or a reasoning item, or a thread.started or turn.completed
\* event; every other event (turn.started, turn.failed, error, item events of
\* any other item type) is dropped without a POST
C14_AgentItemsOfAnyStage ==
  [][\A t \in Tasks :
       Yields(t) =>
         LET e == task'[t].event IN
         /\ ForwardedNow(t) <=>
              \/ /\ e.type \in {"item.started", "item.updated", "item.completed"}
                 /\ e.item \in {"agent_message", "reasoning"}
              \/ e.type \in {"thread.started", "turn.completed"}
         /\ ~ForwardedNow(t) => task'[t].posts = task[t].posts]_vars

C14_Witness ==
  \E t \in Runs({"stream"}) :
    /\ task[t].seen = 2
    /\ task[t].event = Ev("item.completed", "command_execution")
    /\ Len(task[t].posts) = 1
    /\ task[t].posts[1].payload.success
    /\ task[t].posts[1].payload.type = "item.started"
    /\ task[t].posts[1].payload.item = "agent_message"

\* C15: in a streaming chat the k-th forwarded event carries event_number k,
\* starting at 1, whether earlier POSTs were delivered or rejected, and a
\* dropped event consumes no number
C15_EventNumbers ==
  /\ [](\A t \in Runs({"stream"}) :
          /\ \A i \in 1..Len(task[t].posts) :
               task[t].posts[i].payload.success =>
                 task[t].posts[i].payload.event_number = i
          /\ task[t].eventCount =
               Cardinality({i \in 1..Len(task[t].posts) : task[t].posts[i].payload.success}))
  /\ [][\A t \in Tasks :
          (Yields(t) /\ ~ForwardedNow(t)) => task'[t].eventCount = task[t].eventCount]_vars

C15_Witness ==
  \E t \in Runs({"stream"}) :
    /\ Len(task[t].posts) = 2
    /\ task[t].posts[1].status = "failed"
    /\ task[t].posts[1].payload.success /\ task[t].posts[2].payload.success
    /\ task[t].posts[1].payload.event_number = 1
    /\ task[t].posts[2].payload.event_number = 2
    /\ task[t].posts[2].payload.type = "turn.completed"

\* a chat or streaming-chat request is accepted in this step
ChatAcceptedNow(t) ==
  /\ served' = served + 1
  /\ task'[t].kind \in {"chat", "stream"}
  /\ task'[t].pc # "refused"

PairRuns == {t \in PairTasks : task[t].kind = "download" /\ task[t].promise # "none"}
Max(a, b) == IF a >= b THEN a ELSE b

\* C17: a download request is accepted and starts its own duplicate command
\* whatever the other task is doing, and the other task goes on untouched; a
\* run that was provisioned ran its own duplicate and its own pull; and when
\* two provisioned runs derived the same envId the registry holds the session
\* of the run whose setupEnvironment stored last
C17_SameThemeRace ==
  /\ [][\A t \in PairTasks :
          (served' = served + 1 /\ task'[t] # task[t]) =>
             /\ task'[t].pc = "duplicate"
             /\ task'[t].calls = [NoCalls EXCEPT !.dup = 1]
             /\ \A u \in PairTasks \ {t} : task'[u] = task[u]]_vars
  /\ [](\A t \in PairRuns :
          task[t].thread # 0 =>
            /\ task[t].calls.dup = 1
            /\ task[t].calls.pull >= 1
            /\ task[t].calls.pull = Len(task[t].pullLog))
  /\ [](\A t, u \in PairRuns :
          (t # u /\ task[t].thread # 0 /\ task[u].thread # 0
             /\ task[t].envId = task[u].envId) =>
            environmentThreads[task[t].envId].thread.id
              = Max(task[t].thread, task[u].thread))

\* both runs for theme 1 are in flight, got the same duplicate id, and the one
\* provisioned second owns the registry entry
C17_Witness ==
  /\ task[1].arg = <<"1">> /\ task[2].arg = <<"1">>
  /\ task[1].pc = "dev_check" /\ task[2].pc = "dev_chmod"
  /\ task[1].newThemeId = <<"7">> /\ task[2].newThemeId = <<"7">>
  /\ task[1].thread = 2 /\ task[2].thread = 1
  /\ environmentThreads[<<"_", "t", "_", "7">>].thread.id = 2

\* C18: of two download runs whose duplicated theme ids differ, each one that
\* succeeded POSTs first { success: true } with its own theme_id and env_id,
\* each one that was provisioned keeps its own registry entry, and no step of
\* one run (a failing one included) changes the other run's state, directory
\* or registry entry
C18_UnrelatedThemesIndependent ==
  /\ [](\A t \in PairRuns :
          task[t].opOk =>
            task[t].posts[1].payload =
              [success |-> TRUE, theme_id |-> task[t].newThemeId,
               env_id |-> <<"_", "t", "_">> \o task[t].newThemeId])
  /\ [](\A t, u \in PairTasks :
          (t # u /\ task[t].thread # 0 /\ task[u].newThemeId # task[t].newThemeId) =>
            /\ task[t].envId \in DOMAIN environmentThreads
            /\ environmentThreads[task[t].envId].thread.id = task[t].thread
            /\ environmentThreads[task[t].envId].workingDirectory
                 = <<"/", "t", "/">> \o task[t].newThemeId)
  /\ [][\A t, u \in PairTasks :
          (t # u /\ task'[u] # task[u] /\ task[t].newThemeId # <<>>
             /\ task'[u].newThemeId # task[t].newThemeId) =>
            /\ task'[t] = task[t]
            /\ fs'[task[t].newThemeId] = fs[task[t].newThemeId]
            /\ task[t].thread # 0 =>
                 environmentThreads'[task[t].envId] = environmentThreads[task[t].envId]]_vars

\* one run succeeded, the other failed after provisioning, and both
\* environments are in the registry
C18_Witness ==
  /\ task[1].pc = "done" /\ task[2].pc = "done"
  /\ task[1].newThemeId = <<"7">> /\ task[2].newThemeId = <<"8">>
  /\ task[1].opOk /\ task[1].posts[1].status = "ok"
  /\ task[2].error.kind = "DirNotFound"
  /\ task[1].thread = 2 /\ task[2].thread = 1
  /\ DOMAIN environmentThreads = {<<"_", "t", "_", "7">>, <<"_", "t", "_", "8">>}

\* an entry with every field set: a session handle the SDK gave out, started in
\* the entry's working directory, a model and a creation time
Complete(e) ==
  /\ e.thread.id \in 1..(nextThread - 1)
  /\ e.thread.options.workingDirectory = e.workingDirectory
  /\ e.workingDirectory # <<>>
  /\ e.model # ""
  /\ e.createdAt >= 1

\* the setupEnvironment call that created the session of entry e has returned
StoredByFinishedCall(e) ==
  \E t \in RegTasks :
    /\ task[t].pc = "done"
    /\ task[t].thread = e.thread.id
    /\ task[t].arg = e.workingDirectory

\* C19: whatever the interleaving of setupEnvironment calls with reads and
\* removals, every entry in the registry and every entry a getEnvironment or
\* listEnvironments returned has its session handle, workingDirectory, model
\* and createdAt set and was stored by a setupEnvironment call whose session
\* creation had completed; a read returns the registry as it is at that
\* moment and changes nothing
C19_NoPartialEntries ==
  /\ [](\A k \in DOMAIN environmentThreads :
          Complete(environmentThreads[k]) /\ StoredByFinishedCall(environmentThreads[k]))
  /\ []((probe.op = "get" /\ probe.returned) =>
          Complete(probe.entry) /\ StoredByFinishedCall(probe.entry))
  /\ [](\A e \in probe.listed : Complete(e) /\ StoredByFinishedCall(e))
  /\ [][(probe' # probe /\ probe'.op \in {"get", "list"}) =>
          /\ environmentThreads' = environmentThreads
          /\ task' = task
          /\ probe'.op = "list" => probe'.listed = ListEnvironments(environmentThreads)
          /\ probe'.op = "get" =>
               probe'.entry = GetEnvironment(environmentThreads, probe'.envId)]_vars

\* a list made while one setupEnvironment call is waiting for its session and
\* another has returned shows the finished one only
C19_Witness ==
  /\ task[1].pc = "start_thread" /\ task[1].arg = <<"/", "a">>
  /\ task[2].pc = "done" /\ task[2].arg = <<"/", "b">>
  /\ probe.op = "list"
  /\ {e.envId : e \in probe.listed} = {<<"_", "b">>}

\* C20: every session setupEnvironment stores was started with approval mode
\* 'never', sandbox mode 'danger-full-access' and skipGitRepoCheck false, for
\* every working directory and model; and startThread with yoloMode true hands
\* the SDK 'never' and 'danger-full-access' whatever approvalMode and
\* sandboxMode the caller supplied
C20_MaximalPermission ==
  /\ \A k \in DOMAIN environmentThreads :
       LET o == environmentThreads[k].thread.options IN
       /\ o.approvalMode = "never"
       /\ o.sandboxMode = "danger-full-access"
       /\ o.skipGitRepoCheck = FALSE
       /\ o.model = environmentThreads[k].model
  /\ (probe.op = "startThread" /\ probe.request.yoloMode = "true") =>
       /\ probe.threadOptions.approvalMode = "never"
       /\ probe.threadOptions.sandboxMode = "danger-full-access"

C20_Witness ==
  /\ probe.op = "startThread"
  /\ probe.request.yoloMode = "true"
  /\ probe.request.approvalMode = "on-request"
  /\ probe.request.sandboxMode = "read-only"
  /\ probe.threadOptions.approvalMode = "never"
  /\ \E k \in DOMAIN environmentThreads :
       environmentThreads[k].thread.options.sandboxMode = "danger-full-access"

\* C21: every webhook POST, of a success payload or of a failure payload, goes
\* to {WEBHOOK_URL}/{segment}/{SESSION_ID} with segment 'theme' for the
\* download workflow and the theme list, 'chat' for the chat and
\* 'chat-streaming' for the streaming chat, and carries the Basic
\* Authorization header
C21_WebhookUrlAndAuth ==
  \A t \in Runs(AllKinds) :
    \A i \in 1..Len(task[t].posts) :
      /\ task[t].posts[i].auth
      /\ task[t].posts[i].segment =
           CASE task[t].kind \in {"download", "list"} -> "theme"
             [] task[t].kind = "chat" -> "chat"
             [] OTHER -> "chat-streaming"

\* C22: the environment set up for the working directory /themes/123456789
\* has envId themes_123456789
C22_ReadmeEnvId ==
  probe.a = ReadmeDir =>
    probe.ea = <<"t", "h", "e", "m", "e", "s", "_",
                 "1", "2", "3", "4", "5", "6", "7", "8", "9">>

\* a turn.completed event of the run was forwarded
TurnCompletedForwarded(tk) ==
  \E i \in 1..Len(tk.posts) :
    tk.posts[i].payload.success /\ tk.posts[i].payload.type = "turn.completed"

\* C23: a streaming chat run that is over without a forwarded turn.completed
\* event, because the environment was missing, the stream raised an error, or
\* the stream ended on a turn.failed or error event, has POSTed
\* { success: false, env_id, error } to the streaming webhook
C23_FailedStreamReported ==
  \A t \in Runs({"stream"}) :
    ( /\ task[t].pc = "done"
      /\ ~TurnCompletedForwarded(task[t])
      /\ \/ task[t].error.kind \in {"EnvNotFound", "RunFailed"}
         \/ task[t].event.type \in {"turn.failed", "error"} )
    => \E i \in 1..Len(task[t].posts) :
         /\ task[t].posts[i].segment = "chat-streaming"
         /\ ~task[t].posts[i].payload.success
         /\ task[t].posts[i].payload.env_id = task[t].arg

\* C24: when the pulled directory does not exist at the moment runThemeDev
\* verifies it, runThemeDev throws 'Theme directory not found: <path>' without
\* writing the wrapper script or spawning a process, and the workflow POSTs
\* the failure payload with that error
C24_PreviewDirectoryMissing ==
  /\ [][\A t \in Tasks :
          ( /\ SameRun(t) /\ task[t].kind = "download"
            /\ task[t].pc = "dev_check" /\ task'[t].pc # "dev_check"
            /\ ~fs[task[t].newThemeId].exists ) =>
             /\ task'[t].error =
                  Err("DirNotFound", 0, <<"/", "t", "/">> \o task[t].newThemeId)
             /\ fs' = fs
             /\ task'[t].calls.spawn = 0
             /\ task'[t].posts =
                  <<[segment |-> "theme", auth |-> TRUE, status |-> "inflight",
                     payload |-> [success |-> FALSE, error |-> task'[t].error]]>>]_vars
  /\ [](\A t \in Runs({"download"}) :
          task[t].error.kind = "DirNotFound" =>
            /\ task[t].calls.spawn = 0
            /\ ~task[t].opOk
            /\ Len(task[t].posts) = 1
            /\ task[t].posts[1].payload = [success |-> FALSE, error |-> task[t].error])

C24_Witness ==
  \E t \in Runs({"download"}) :
    /\ task[t].pc = "done"
    /\ task[t].error = Err("DirNotFound", 0, <<"/", "t", "/", "7">>)
    /\ task[t].calls.dev = 1
    /\ task[t].posts[1].status = "ok"
    /\ ~fs[<<"7">>].exists

\* removeEnvironment(k) is what this step does
RemovedNow(k) ==
  /\ task' = task /\ nextThread' = nextThread
  /\ environmentThreads' = MapDelete(environmentThreads, k)

\* a setupEnvironment that derived envId k stores its entry in this step
ReplacedNow(k) ==
  \E t \in Tasks :
    /\ task[t].pc = "setup" /\ task'[t].pc = "dev_check"
    /\ task'[t].envId = k
    /\ environmentThreads'[k].thread.id = nextThread

\* C25: the registry is empty until the first setupEnvironment has stored an
\* entry, and an entry stays as it is from one state to the next unless the
\* step is a removeEnvironment on its envId or a setupEnvironment that
\* derived the same envId: no step of a chat, a failed workflow, a webhook
\* POST or the preview process removes or changes it
C25_EntriesPersist ==
  /\ [](nextThread = 1 => environmentThreads = EmptyMap)
  /\ [][\A k \in DOMAIN environmentThreads :
          (k \notin DOMAIN environmentThreads' \/ environmentThreads'[k] # environmentThreads[k])
            => (RemovedNow(k) \/ ReplacedNow(k))]_vars

\* the environment of the first download is still the one stored, after a
\* chat on it failed and the failure webhook was rejected
C25_Witness ==
  \E t \in Runs({"chat"}) :
    /\ task[t].pc = "done"
    /\ task[t].error.kind = "RunFailed"
    /\ task[t].posts[1].status = "failed"
    /\ task[t].arg \in DOMAIN environmentThreads
    /\ environmentThreads[task[t].arg].thread.id = 1

\* the channel duplicateTheme reads: stdout, or stderr when stdout is empty
ReadChannel(request) ==
  IF request.stdout.text \in {"empty", "blank"} THEN request.stderr
  ELSE request.stdout

\* the text is JSON and carries a theme identifier
CarriesThemeId(out) ==
  /\ out.text = "json"
  /\ \/ out.shape = "number" /\ out.idNum > 0
     \/ out.shape = "string" /\ out.idStr # <<>>

\* the identifier in the text, written as a string
ThemeIdText(out) ==
  IF out.shape = "string" THEN out.idStr
  ELSE CASE out.idNum = 7 -> <<"7">> [] out.idNum = 8 -> <<"8">> [] OTHER -> <<>>

StepBefore ==
  [wait |-> "dup", pull |-> "wait", setup |-> "pull", dev |-> "setup",
   spawn |-> "dev"]

\* C27: a download run starts with the duplicate command; the propagation
\* wait, the pull, the session provisioning and the preview launch start in
\* that order, each only in a run that has raised no error and after the step
\* before it has started and succeeded (the wait with the new theme id at
\* hand, the provisioning after a pull attempt that exited cleanly and left a
\* non-empty directory, the launch with the session of this run in the
\* registry); the success payload is POSTed only once the preview process has
\* been spawned
C27_StepOrder ==
  /\ [](\A t \in Runs({"download"}) :
          LET tk == task[t] IN
          /\ tk.calls.dup = 1
          /\ \A f \in DOMAIN StepBefore :
               tk.calls[f] > 0 => tk.calls[StepBefore[f]] > 0
          /\ tk.calls.wait > 0 => tk.newThemeId \in NewThemeIds
          /\ tk.calls.setup > 0 =>
               /\ tk.pullLog # <<>>
               /\ Last(tk.pullLog).exitOk /\ Last(tk.pullLog).nonEmpty
          /\ tk.calls.dev > 0 => tk.envId # <<>> /\ tk.thread > 0
          /\ \A i \in 1..Len(tk.posts) :
               tk.posts[i].payload.success => tk.calls.spawn = 1)
  /\ [][\A t \in Tasks :
          (SameRun(t) /\ task[t].kind = "download") =>
            /\ \A f \in DOMAIN StepBefore :
                 task'[t].calls[f] > task[t].calls[f] =>
                   /\ task[t].error = NoError /\ task[t].posts = <<>>
                   /\ task[t].calls[StepBefore[f]] > 0
                   /\ f # "pull" => task[t].calls[f] = 0
            /\ task'[t].calls.dev > task[t].calls.dev =>
                 /\ task'[t].envId \in DOMAIN environmentThreads'
                 /\ environmentThreads'[task'[t].envId].thread.id = task'[t].thread
            /\ Len(task'[t].posts) > Len(task[t].posts) =>
                 (Last(task'[t].posts).payload.success =>
                    task[t].calls.spawn = 0 /\ task'[t].calls.spawn = 1)]_vars

\* a run that went through every step, the pull twice, and delivered the
\* success payload
C27_Witness ==
  \E t \in Runs({"download"}) :
    /\ task[t].pc = "done" /\ task[t].opOk
    /\ task[t].calls = [NoCalls EXCEPT !.dup = 1, !.wait = 1, !.pull = 2,
                                       !.sleep = 1, !.setup = 1, !.dev = 1,
                                       !.spawn = 1]
    /\ task[t].posts[1].payload.success /\ task[t].posts[1].status = "ok"

\* the steps of downloadTheme other than the pull
SingleSteps == {"dup", "wait", "setup", "dev", "spawn"}

\* C28: in a run of the download workflow the duplicate command, the
\* propagation wait, the session provisioning, the preview launch and the
\* spawn of the preview process are each started at most once, so none of them
\* is re-run after it failed; the pull command alone may run again, after a
\* retry delay each time and at most THEME_PULL_MAX_RETRIES times more
C28_OnlyPullRepeats ==
  /\ [](\A t \in Runs({"download"}) :
          /\ \A f \in SingleSteps : task[t].calls[f] <= 1
          /\ task[t].calls.pull <= maxRetries + 1
          /\ task[t].calls.pull > 0 =>
               task[t].calls.sleep \in {task[t].calls.pull - 1, task[t].calls.pull})
  /\ [][\A t \in Tasks :
          (SameRun(t) /\ task[t].kind = "download") =>
            \A f \in SingleSteps :
              task[t].calls[f] = 1 => task'[t].calls[f] = 1]_vars

\* the pull ran three times in a run whose provisioning then failed, once
C28_Witness ==
  \E t \in Runs({"download"}) :
    /\ task[t].pc = "done"
    /\ task[t].error.kind = "StartThreadFailed"
    /\ task[t].calls.pull = 3 /\ task[t].calls.setup = 1
    /\ task[t].calls.dup = 1 /\ task[t].calls.wait = 1

\* a step of pullTheme made by task t: the mkdir, a pull attempt or a retry delay
PullThemeStep(t) ==
  /\ SameRun(t) /\ task[t].kind = "download"
  /\ task[t].pc \in {"mkdir", "pull", "sleep"}
  /\ task'[t] # task[t]

\* pullTheme neither removes the directory nor any file in it, and touches no
\* other directory; the mkdir comes before the first attempt
PullThemeFrame(t) ==
  LET id == task[t].newThemeId IN
  /\ fs[id].files \subseteq fs'[id].files
  /\ fs[id].exists => fs'[id].exists
  /\ \A other \in NewThemeIds \ {id} : fs'[other] = fs[other]
  /\ task[t].pc = "mkdir" =>
       /\ task[t].calls.pull = 0 /\ task[t].pullLog = <<>>
       /\ fs'[id].exists /\ task'[t].calls.pull = 1

\* C29: pullTheme creates the directory before the first pull attempt, no step
\* of it removes the directory or a file in it (what was there before an
\* attempt is there before the next one and after a failure), and a first
\* attempt that starts on a non-empty directory succeeds whatever the pull
\* command did: pullTheme returns and the session provisioning starts
C29_PullKeepsDirectory ==
  [][\A t \in Tasks :
       PullThemeStep(t) =>
         /\ PullThemeFrame(t)
         /\ ( /\ task[t].pc = "pull" /\ task[t].attempt = 0
              /\ fs[task[t].newThemeId].exists
              /\ fs[task[t].newThemeId].files # {} ) =>
              /\ task'[t].pc = "setup"
              /\ task'[t].calls.pull = 1 /\ task'[t].calls.setup = 1
              /\ task'[t].error = NoError]_vars

\* no step of pullTheme removes anything
PullThemeKeepsFiles == [][\A t \in Tasks : PullThemeStep(t) => PullThemeFrame(t)]_vars

\* a first attempt on a non-empty directory whose pull command exited with
\* status 0 makes pullTheme return
FirstAttemptCleanExit ==
  [][\A t \in Tasks :
       ( /\ PullThemeStep(t)
         /\ task[t].pc = "pull" /\ task[t].attempt = 0
         /\ fs[task[t].newThemeId].exists
         /\ fs[task[t].newThemeId].files # {}
         /\ Last(task'[t].pullLog).exitOk ) =>
         task'[t].pc = "setup" /\ task'[t].error = NoError]_vars

\* the preview process of task t has been spawned
Spawned(tk) == tk.preview \in {"running", "exited", "errored"}

\* C30: the step that spawns the preview process returns at once, with the
\* process running and the success payload on its way; in a run whose preview
\* has been spawned no step spawns again, and the step in which the process
\* exits or fails to start changes nothing but the state of the process: no
\* webhook is POSTed or altered, the run goes on from where it was, and the
\* registry and the theme directories stay as they are
C30_PreviewUnsupervised ==
  /\ [](\A t \in Runs({"download"}) :
          Spawned(task[t]) =>
            /\ task[t].calls.spawn = 1 /\ task[t].opOk
            /\ task[t].posts # <<>>
            /\ task[t].posts[1].payload =
                 [success |-> TRUE, theme_id |-> task[t].newThemeId,
                  env_id |-> task[t].envId])
  /\ [][\A t \in Tasks :
          (SameRun(t) /\ task[t].kind = "download") =>
            /\ task'[t].calls.spawn > task[t].calls.spawn =>
                 /\ task'[t].preview = "running"
                 /\ task'[t].pc = "post_ok"
                 /\ Last(task'[t].posts).status = "inflight"
            /\ Spawned(task[t]) =>
                 /\ task'[t].calls.spawn = task[t].calls.spawn
                 /\ task'[t].preview \in {task[t].preview, "exited", "errored"}
                 /\ task[t].preview # "running" => task'[t].preview = task[t].preview
            /\ task'[t].preview # task[t].preview /\ Spawned(task[t]) =>
                 /\ [task'[t] EXCEPT !.preview = task[t].preview] = task[t]
                 /\ environmentThreads' = environmentThreads
                 /\ fs' = fs /\ nextThread' = nextThread]_vars

\* the preview process failed to start while the success payload was still
\* in flight
C30_Witness ==
  \E t \in Runs({"download"}) :
    /\ task[t].pc = "post_ok"
    /\ task[t].preview = "errored"
    /\ task[t].posts =
         <<[segment |-> "theme", auth |-> TRUE, status |-> "inflight",
            payload |-> [success |-> TRUE, theme_id |-> task[t].newThemeId,
                         env_id |-> task[t].envId]]>>
    /\ task[t].envId \in DOMAIN environmentThreads

\* the body of a chat request lacks env_id or prompt
LacksField(tk) == tk.arg = <<>> \/ tk.prompt = "missing"

\* how /chat and /chat-streaming answered the request task tk stands for
ChatAnswerOk(tk) ==
  IF LacksField(tk)
  THEN /\ tk.response.status = 400 /\ ~tk.response.success
       /\ tk.pc = "refused" /\ tk.promise = "none"
       /\ tk.calls = NoCalls /\ tk.posts = <<>>
  ELSE /\ tk.response.status = 200 /\ tk.response.success
       /\ tk.promise # "none"

\* C31: a /chat or /chat-streaming request without env_id or without prompt
\* is answered 400 with success false and leaves no background task, no agent
\* run and no webhook; a request that carries both is answered 200 with
\* success true and has its background task, whether or not the registry
\* holds the environment
C31_ChatValidation ==
  \A t \in Tasks :
    task[t].kind \in {"chat", "stream"} => ChatAnswerOk(task[t])

\* the same for the requests whose prompt is a string or absent
ChatValidationOfStrings ==
  \A t \in Tasks :
    (task[t].kind \in {"chat", "stream"} /\ task[t].prompt # "nonstring")
      => ChatAnswerOk(task[t])

\* the streaming sessions among the two tasks
StreamRuns == {t \in StreamTasks : task[t].kind = "stream" /\ task[t].promise # "none"}

\* the event payloads task tk has POSTed so far
EventPosts(tk) == {i \in 1..Len(tk.posts) : tk.posts[i].payload.success}

\* C32: of two streaming sessions in flight together, on the same environment
\* or not, each numbers its own forwarded events 1, 2, 3, ... in the order it
\* POSTs them, its counter is the number of events it has forwarded itself,
\* and no step of one session changes the counter or the POSTs of the other
C32_IndependentCounters ==
  /\ [](\A t \in StreamRuns :
          /\ \A i \in EventPosts(task[t]) :
               /\ task[t].posts[i].payload.event_number = i
               /\ task[t].posts[i].payload.env_id = task[t].arg
          /\ task[t].eventCount = Cardinality(EventPosts(task[t])))
  /\ [][\A t \in StreamTasks, u \in StreamTasks :
          (t # u /\ task'[t] # task[t]) =>
             /\ task'[u].eventCount = task[u].eventCount
             /\ task'[u].posts = task[u].posts]_vars

\* both sessions run on the same environment; the first has its second event
\* in flight while the second session has its first one in flight
C32_Witness ==
  /\ task[1].kind = "stream" /\ task[2].kind = "stream"
  /\ task[1].arg = task[2].arg /\ task[1].thread = 1 /\ task[2].thread = 1
  /\ task[1].pc = "stream_post" /\ task[2].pc = "stream_post"
  /\ Len(task[1].posts) = 2 /\ Len(task[2].posts) = 1
  /\ task[1].posts[2].payload.event_number = 2
  /\ task[2].posts[1].payload.event_number = 1
  /\ task[1].posts[1].status = "failed"

\* the POSTs of tk that have not settled
InFlight(tk) == {i \in 1..Len(tk.posts) : tk.posts[i].status = "inflight"}

\* C33: a streaming session has at most one webhook POST in flight, the one it
\* issued last, and while that POST is in flight the session is waiting for
\* it; the next event is taken from the stream only when every POST issued so
\* far has settled, and a POST once issued keeps its place and its payload, so
\* the POSTs start in the order the events were emitted
C33_OnePostAtATime ==
  /\ [](\A t \in Runs({"stream"}) :
          /\ InFlight(task[t]) \subseteq {Len(task[t].posts)}
          /\ InFlight(task[t]) # {} <=> task[t].pc \in {"stream_post", "post_err"}
          /\ \A i \in EventPosts(task[t]), j \in EventPosts(task[t]) :
               i < j => task[t].posts[i].payload.event_number
                          < task[t].posts[j].payload.event_number)
  /\ [][\A t \in Tasks :
          (SameRun(t) /\ task[t].kind = "stream") =>
            /\ Yields(t) => InFlight(task[t]) = {}
            /\ Len(task'[t].posts) >= Len(task[t].posts)
            /\ \A i \in 1..Len(task[t].posts) :
                 /\ task'[t].posts[i].payload = task[t].posts[i].payload
                 /\ task[t].posts[i].status # "inflight" =>
                      task'[t].posts[i] = task[t].posts[i]]_vars

\* the second event is POSTed after the POST of the first one succeeded
C33_Witness ==
  \E t \in Runs({"stream"}) :
    /\ task[t].pc = "stream_post"
    /\ Len(task[t].posts) = 2
    /\ task[t].posts[1].status = "ok" /\ task[t].posts[2].status = "inflight"
    /\ task[t].posts[1].payload.type = "thread.started"
    /\ task[t].posts[2].payload.type = "item.completed"

\* C34: whatever keys the forwarded event carries, the payload built for it
\* has success true, the env_id of the session, the session's counter as
\* event_number and the capture time as timestamp, next to the event's type
C34_ForwarderFieldsWin ==
  probe.op = "eventPayload" =>
    /\ probe.entry.success = TRUE
    /\ probe.entry.env_id = probe.envId
    /\ probe.entry.event_number = probe.request.n
    /\ probe.entry.timestamp = "capture-time"
    /\ probe.entry.type = probe.request.event.type

\* the same for the events that carry none of the forwarder's keys
ForwarderFieldsOfPlainEvents ==
  (probe.op = "eventPayload" /\ DOMAIN probe.request.event \cap ClashKeys = {}) =>
    /\ probe.entry.success = TRUE
    /\ probe.entry.env_id = probe.envId
    /\ probe.entry.event_number = probe.request.n
    /\ probe.entry.timestamp = "capture-time"
    /\ probe.entry.type = probe.request.event.type

\* task t POSTs the success payload of the download workflow in this step
SuccessPostNow(t) ==
  /\ SameRun(t) /\ task[t].kind = "download"
  /\ Len(task'[t].posts) = Len(task[t].posts) + 1
  /\ Last(task'[t].posts).payload.success

\* the directory a theme is pulled into
PulledDirectory(themeId) == <<"/", "t", "/">> \o themeId

\* a chat request for an envId the registry holds finds that environment
ChatFindsEnvironment ==
  \A t \in Tasks :
    (ChatAcceptedNow(t) /\ task'[t].arg \in DOMAIN environmentThreads) =>
       /\ task'[t].calls.run = 1
       /\ task'[t].thread = environmentThreads[task'[t].arg].thread.id
       /\ task'[t].error = NoError

\* C35 (as stated): in the step in which a download run POSTs its success
\* payload the registry holds an entry for the payload's env_id whose working
\* directory is the pulled directory of the payload's theme_id; and a chat
\* request for an envId the registry holds finds that environment
C35_EntryAtSuccessWebhook ==
  /\ [][\A t \in Tasks :
          SuccessPostNow(t) =>
            LET p == Last(task'[t].posts).payload IN
            /\ p.env_id \in DOMAIN environmentThreads'
            /\ environmentThreads'[p.env_id].workingDirectory
                 = PulledDirectory(p.theme_id)]_vars
  /\ [][ChatFindsEnvironment]_vars

\* C35 (amended): the provisioning step of a download run stores the entry of
\* its envId, bound to the pulled directory of the new theme; from then until
\* the success payload is POSTed the envId leaves the registry only by a
\* removeEnvironment on it, so the entry is there when the payload is POSTed
\* unless it was removed in between, and whenever it is there it is bound to
\* the pulled directory of the payload's theme_id; the payload's env_id is
\* that envId; and a chat request for an envId the registry holds finds that
\* environment
C35_EntryUnlessRemoved ==
  /\ [][\A t \in Tasks :
          (SameRun(t) /\ task[t].kind = "download") =>
            /\ (task[t].pc = "setup" /\ task'[t].pc = "dev_check") =>
                 /\ task'[t].envId = <<"_", "t", "_">> \o task[t].newThemeId
                 /\ task'[t].envId \in DOMAIN environmentThreads'
                 /\ environmentThreads'[task'[t].envId].workingDirectory
                      = PulledDirectory(task[t].newThemeId)
                 /\ environmentThreads'[task'[t].envId].thread.id = task'[t].thread
            /\ ( /\ task[t].pc \in {"dev_check", "dev_write", "dev_chmod"}
                 /\ task[t].envId \in DOMAIN environmentThreads
                 /\ task[t].envId \notin DOMAIN environmentThreads' ) =>
                 RemovedNow(task[t].envId)
            /\ SuccessPostNow(t) =>
                 LET p == Last(task'[t].posts).payload IN
                 /\ p.env_id = task[t].envId /\ p.theme_id = task[t].newThemeId
                 /\ p.env_id \in DOMAIN environmentThreads' =>
                      environmentThreads'[p.env_id].workingDirectory
                        = PulledDirectory(p.theme_id)]_vars
  /\ [][ChatFindsEnvironment]_vars

\* the success payload is in flight and the environment it names was removed
\* while the preview was being launched
C35_Witness ==
  \E t \in Runs({"download"}) :
    /\ task[t].pc = "post_ok"
    /\ Last(task[t].posts).payload.success
    /\ Last(task[t].posts).status = "inflight"
    /\ Last(task[t].posts).payload.env_id \notin DOMAIN environmentThreads

\* the run of tk failed in runThemeDev: the launch had started, nothing was
\* spawned
FailedAtLaunch(tk) ==
  tk.kind = "download" /\ tk.calls.dev = 1 /\ tk.calls.spawn = 0 /\ StepFailed(tk)

\* C36: a download run that fails in the preview launch step leaves the
\* registry as it is in the failing step and in every later step of the run,
\* so the environment it provisioned stays unless someone removes it; its only
\* webhook is the failure payload { success: false, error }, which has no
\* env_id; and a chat request for an envId the registry holds, that of a
\* failed run included, gets the session stored under it
C36_NoRollback ==
  /\ [](\A t \in Runs({"download"}) :
          FailedAtLaunch(task[t]) =>
            /\ task[t].thread > 0 /\ task[t].envId # <<>>
            /\ Len(task[t].posts) = 1
            /\ DOMAIN task[t].posts[1].payload = {"success", "error"}
            /\ ~task[t].posts[1].payload.success
            /\ task[t].posts[1].payload.error = task[t].error)
  /\ [][\A t \in Tasks :
          (SameRun(t) /\ task'[t] # task[t] /\ FailedAtLaunch(task'[t])) =>
             environmentThreads' = environmentThreads]_vars
  /\ [][\A t \in Tasks :
          (ChatAcceptedNow(t) /\ HasEnvironment(environmentThreads, task'[t].arg)) =>
             /\ task'[t].pc \in {"run", "stream_start"}
             /\ task'[t].thread = environmentThreads[task'[t].arg].thread.id]_vars

\* the run failed on a missing directory, its failure payload was delivered,
\* and the session it provisioned is still the one in the registry
C36_Witness ==
  \E t \in Runs({"download"}) :
    /\ task[t].pc = "done"
    /\ task[t].error.kind = "DirNotFound"
    /\ task[t].posts[1].status = "ok"
    /\ task[t].envId \in DOMAIN environmentThreads
    /\ environmentThreads[task[t].envId].thread.id = task[t].thread

\* the chat task has found its environment and holds the session handle
LookedUp(tk) == tk.kind = "chat" /\ tk.calls.run = 1

\* C37: once a chat run has looked up its environment it holds the session
\* handle it found: a removeEnvironment or a setupEnvironment on the same
\* envId changes nothing in the run, the run never reports the environment
\* missing, keeps its handle and its env_id whatever the registry holds when
\* it goes on, and every webhook it POSTs names the env_id it was asked for
C37_LookupIsFinal ==
  /\ [](LookedUp(task[ChatTask]) =>
          /\ task[ChatTask].thread > 0
          /\ task[ChatTask].error.kind # "EnvNotFound"
          /\ \A i \in 1..Len(task[ChatTask].posts) :
               task[ChatTask].posts[i].payload.env_id = task[ChatTask].arg)
  /\ [][LookedUp(task[ChatTask]) =>
          /\ task'[ChatTask].thread = task[ChatTask].thread
          /\ task'[ChatTask].arg = task[ChatTask].arg
          /\ environmentThreads' # environmentThreads =>
               task'[ChatTask] = task[ChatTask]
          /\ (task[ChatTask].pc = "run" /\ task'[ChatTask].pc # "run") =>
               /\ task'[ChatTask].error.kind \in {"none", "RunFailed"}
               /\ Len(task'[ChatTask].posts) = 1
               /\ task'[ChatTask].posts[1].payload.success
                    = (task'[ChatTask].error.kind = "none")]_vars

\* the chat ran on session 1 and delivered its success payload although the
\* registry holds session 2 under its env_id by then
C37_Witness ==
  /\ task[ChatTask].kind = "chat" /\ task[ChatTask].pc = "done"
  /\ task[ChatTask].opOk /\ task[ChatTask].thread = 1
  /\ task[ChatTask].posts[1].status = "ok"
  /\ task[ChatTask].posts[1].payload.env_id = task[ChatTask].arg
  /\ task[ChatTask].arg \in DOMAIN environmentThreads
  /\ environmentThreads[task[ChatTask].arg].thread.id = 2

\* the download run of task t is under way
DownloadPending(t) == task[t].kind = "download" /\ task[t].promise = "pending"

\* the download run of task t is over and has attempted a webhook POST
DownloadOver(t) ==
  /\ task[t].kind = "download" /\ task[t].pc = "done"
  /\ task[t].promise = "resolved"
  /\ Len(task[t].posts) >= 1
  /\ \A i \in 1..Len(task[t].posts) : task[t].posts[i].status # "inflight"

\* C38: when every external call of the download workflow settles at last,
\* every accepted download request reaches the end of its background task,
\* with the promise resolved and at least one webhook POST attempted and
\* settled; and a run that is under way is always at an external call, so
\* only a call that never settles keeps it from ending
C38_DownloadTerminates ==
  /\ \A t \in Tasks : DownloadPending(t) ~> DownloadOver(t)
  /\ [](\A t \in Tasks :
          DownloadPending(t) =>
            task[t].pc \in {"duplicate", "wait", "mkdir", "pull", "sleep", "setup",
                            "dev_check", "dev_write", "dev_chmod",
                            "post_ok", "post_err"})

\* a run that used up every pull attempt and whose failure webhook was
\* rejected is over
C38_Witness ==
  \E t \in Tasks :
    /\ DownloadOver(t)
    /\ maxRetries = MaxRetriesBound
    /\ task[t].error.kind = "PullExhausted"
    /\ task[t].calls.pull = maxRetries + 1
    /\ task[t].posts[1].status = "failed"

\* the callers to which getCodex has returned a client
Returned == {c \in CodexCallers : codex.caller[c].pc = "returned"}

\* C39: one CodexService calls initializeCodex at most once and constructs at
\* most one client; every caller of getCodex that waits, waits for that one
\* initialization, every caller that gets a client gets that client, which is
\* the one kept in codexInstance, and a caller is turned away only when the
\* initialization failed
C39_OneClient ==
  /\ Len(codex.promises) <= 1
  /\ codex.constructed <= 1
  /\ codex.codexPromise = Len(codex.promises)
  /\ codex.codexInstance \in {0, codex.constructed}
  /\ \A c \in CodexCallers :
       /\ codex.caller[c].pc = "await" => codex.caller[c].awaits = 1
       /\ codex.caller[c].pc = "returned" =>
            /\ codex.constructed = 1
            /\ codex.caller[c].client = 1
            /\ codex.codexInstance = 1
       /\ codex.caller[c].pc = "threw" => codex.promises[1].state = "rejected"
  /\ \A c \in Returned, d \in Returned : codex.caller[c].client = codex.caller[d].client

\* three callers have been through getCodex and hold the one client, a fourth
\* has not called yet
C39_Witness ==
  /\ codex.constructed = 1
  /\ \A c \in 1..3 : codex.caller[c].pc = "returned" /\ codex.caller[c].client = 1
  /\ codex.caller[4].pc = "idle"
  /\ codex.codexInstance = 1


====
